---- MODULE Spec2Model ----
(***************************************************************************)
(* The catalog store of opkcat (package db, src/web/web.go): a badger      *)
(* key-value store holding record blobs under their content hash and       *)
(* freshness blobs under "_url:" + PathEscape(url), plus a bleve full-text *)
(* index keyed by the hash.                                                *)
(*                                                                         *)
(* Byte strings ([]byte keys, hashes, URLs) are sequences of byte values.  *)
(* A gob blob is the struct it encodes, as a TLA+ record of its fields.    *)
(* Errors of gob, of txn.Set and of the commit itself (I/O, transaction    *)
(* too big) are left out; the error of index.Index is modelled.            *)
(*                                                                         *)
(* The fetcher (package fetcher, src/fetcher/fetcher.go) is modelled on    *)
(* top of the store: the scheduler Service.Run with Service.Stop, and the  *)
(* fetch cycle Service.Fetch with its producer and worker goroutines.      *)
(* Specifications: Spec (one caller of the store), SpecConc (two           *)
(* concurrent MultiUpdateRecord calls), SpecRun and SpecRunFair (the       *)
(* scheduler with its fetch cycles), SpecFetch (one Fetch call).           *)
(***************************************************************************)
EXTENDS Integers, Sequences, FiniteSets, TLC

\* ------------------------------------------------------------------ bounds
\* Longest batch handed to MultiUpdateRecord.
MaxBatch == 2
\* Length of a content hash (sha256.Size is 32; every digest has one length).
HashLen == 2
\* The concurrency bound handed to fetcher.New.
maxFetches == 2
\* Ticks the ticker delivers in a run (one every 12 hours).
MaxTicks == 1
\* cap(runFetch)
RunFetchCap == 1
\* Fetch cycles a run can spawn: the startup trigger and one per tick.
MaxCycles == MaxTicks + 1

\* ------------------------------------------------------------- byte strings
\* bytes.HasPrefix, as used by Iterator.ValidForPrefix.
HasPrefix(s, p) ==
    /\ Len(p) <= Len(s)
    /\ \A i \in 1..Len(p) : s[i] = p[i]

\* bytes.Compare(a, b) < 0: the order of the keys in badger.
RECURSIVE BytesLess(_, _)
BytesLess(a, b) ==
    IF Len(b) = 0 THEN FALSE
    ELSE IF Len(a) = 0 THEN TRUE
    ELSE IF Head(a) # Head(b) THEN Head(a) < Head(b)
    ELSE BytesLess(Tail(a), Tail(b))

\* "0123456789ABCDEF"[n], as a byte.
upperhex(n) == IF n < 10 THEN 48 + n ELSE 55 + n

\* net/url shouldEscape(c, encodePathSegment) for the 7-bit bytes.
shouldEscape(c) ==
    IF (c >= 97 /\ c <= 122) \/ (c >= 65 /\ c <= 90) \/ (c >= 48 /\ c <= 57)
    THEN FALSE
    ELSE IF c \in {45, 95, 46, 126} THEN FALSE
    ELSE IF c \in {36, 38, 43, 58, 61, 64} THEN FALSE
    ELSE TRUE

\* url.PathEscape: every byte that must be escaped becomes %XX.
RECURSIVE PathEscape(_)
PathEscape(s) ==
    IF Len(s) = 0 THEN <<>>
    ELSE LET c == Head(s) IN
         (IF shouldEscape(c)
          THEN <<37, upperhex(c \div 16), upperhex(c % 16)>>
          ELSE <<c>>) \o PathEscape(Tail(s))

\* The reserved prefix "_url:" of the freshness keys.
urlPrefix == <<95, 117, 114, 108, 58>>

\* []byte("_url:" + url.PathEscape(opkurl))
urlKey(opkurl) == urlPrefix \o PathEscape(opkurl)

\* ------------------------------------------------------------------ values
\* time.Time{} and the time.Now() of a fetch.
ZeroTime == 0
FetchTime == 1

\* &freshness{Date: ..., Etag: ...}, gob-encoded.
freshness(date, etag) == [Date |-> date, Etag |-> etag]

\* gob decoding of a blob into a freshness struct keeps the fields Date and Etag.
decodeFreshness(blob) == [Date |-> blob.Date, Etag |-> blob.Etag]

\* n bytes, all equal to b.
RECURSIVE Repeat(_, _)
Repeat(b, n) == IF n = 0 THEN <<>> ELSE <<b>> \o Repeat(b, n - 1)

\* A digest of HashLen bytes, all equal to b.
Digest(b) == Repeat(b, HashLen)

\* The content hashes of the archives: two digests.
Hashes == {Digest(1), Digest(2)}

\* The URLs registered with the store: "", "a" and "/".
URLs == {<<>>, <<97>>, <<47>>}

\* The URLs records are fetched from: "a" and "/".
SourceURLs == {<<97>>, <<47>>}

\* The entries extractOPK builds from the archive with digest h: one desktop
\* entry named "Foo", or one named "The" and one without a Name key.
EntriesOf(h) ==
    IF h = Digest(1) THEN <<[Name |-> "Foo"]>>
    ELSE <<[Name |-> "The"], [Name |-> ""]>>

\* The Etag header of the response that carries the archive with digest h:
\* each version of an archive has its etag.
EtagOf(h) == IF h = Digest(1) THEN "e1" ELSE "e2"

\* db.Record as fromOPK builds it.
Rec(opkurl, hash) ==
    [URL |-> opkurl, Hash |-> hash, Date |-> FetchTime, Etag |-> EtagOf(hash),
     Entries |-> EntriesOf(hash)]

\* The records offered to the store: one per source URL and digest, and a
\* malformed one that has no hash.
Records == {Rec(u, h) : u \in SourceURLs, h \in Hashes} \cup {Rec(<<97>>, <<>>)}

\* ------------------------------------------------------------- key-value maps
\* A store, a snapshot or the pending writes of a transaction: keys |-> blobs.
EmptyKV == [k \in {} |-> k]

\* txn.Set(key, val) on the pending writes.
Set(kv, key, val) ==
    [k \in (DOMAIN kv) \cup {key} |-> IF k = key THEN val ELSE kv[k]]

\* What a read-write transaction reads: its pending writes over its snapshot.
View(snapshot, writes) ==
    [k \in (DOMAIN snapshot) \cup (DOMAIN writes) |->
        IF k \in DOMAIN writes THEN writes[k] ELSE snapshot[k]]

\* db.Update: the closure's writes are committed when it returns nil and
\* discarded when it returns an error.
dbUpdate(committed, writes, error) ==
    IF error = "nil" THEN View(committed, writes) ELSE committed

\* The position of an iterator that is past the last key (no byte is negative).
InvalidPos == <<-1>>

\* itr.Seek(key): the smallest stored key >= key, InvalidPos when there is none.
Seek(kv, key) ==
    LET ge == {k \in DOMAIN kv : ~BytesLess(k, key)} IN
    IF ge = {} THEN InvalidPos
    ELSE CHOOSE k \in ge : \A o \in ge : o = k \/ BytesLess(k, o)

\* itr.ValidForPrefix(prefix) with the iterator at position pos.
ValidForPrefix(pos, prefix) ==
    /\ pos # InvalidPos
    /\ HasPrefix(pos, prefix)

\* ---------------------------------------------------------------- the store
\* recordExists with an iterator that does not see the pending writes.
recordExistsCommitted(hash, snapshot, writes) ==
    ValidForPrefix(Seek(snapshot, hash), hash)

\* recordExists that finds nothing.
recordExistsNever(hash, snapshot, writes) == FALSE

\* recordExists: seek to the hash and test the key found for the prefix hash.
\* The iterator of a read-write transaction also sees its pending writes.
recordExists(hash, snapshot, writes) ==
    ValidForPrefix(Seek(View(snapshot, writes), hash), hash)

\* A lastUpdated that finds no URL.
lastUpdatedNever(opkurl, view) == <<>>

\* lastUpdated: the freshness stored for opkurl as <<fresh>>, and <<>> (nil)
\* when the key is absent.
lastUpdated(opkurl, view) ==
    IF urlKey(opkurl) \in DOMAIN view
    THEN <<decodeFreshness(view[urlKey(opkurl)])>>
    ELSE <<>>

\* bleve index.Index(id, rec): the document under id is replaced.
IndexDoc(idx, id, rec) == Set(idx, id, rec)

\* updateRecord without the write of the freshness.
updateRecordNoFreshness(rec, writes, idx, indexOK) ==
    [writes |-> Set(writes, rec.Hash, rec),
     index  |-> IF indexOK THEN IndexDoc(idx, rec.Hash, rec) ELSE idx,
     err    |-> IF indexOK THEN "nil" ELSE "IndexError"]

\* updateRecord that logs the error of index.Index and returns nil.
updateRecordBestEffort(rec, writes, idx, indexOK) ==
    LET w1 == Set(writes, rec.Hash, rec)
        w2 == Set(w1, urlKey(rec.URL), freshness(rec.Date, rec.Etag))
    IN  [writes |-> w2,
         index  |-> IF indexOK THEN IndexDoc(idx, rec.Hash, rec) ELSE idx,
         err    |-> "nil"]

\* updateRecord: the record under its hash, the freshness of its URL, then the
\* index document; the error of index.Index is the result. indexOK is whether
\* the index accepts the document.
updateRecord(rec, writes, idx, indexOK) ==
    LET w1 == Set(writes, rec.Hash, rec)
        w2 == Set(w1, urlKey(rec.URL), freshness(rec.Date, rec.Etag))
    IN  [writes |-> w2,
         index  |-> IF indexOK THEN IndexDoc(idx, rec.Hash, rec) ELSE idx,
         err    |-> IF indexOK THEN "nil" ELSE "IndexError"]

\* A test for the hash that accepts every record.
noHashNever(rec) == FALSE

\* len(rec.Hash) == 0
noHash(rec) == Len(rec.Hash) = 0

\* -------------------------------------------------------------------- state
\* The callers of the store. Calls of one caller follow each other.
Callers == {"c1", "c2"}
\* The goroutines that call Service.Stop.
Stoppers == {"s1"}
\* The same when Stop is called twice.
TwoStoppers == {"s1", "s2"}
\* The fetch cycles of a run, in the order Run spawns them.
Cycles == 1..MaxCycles
\* One worker more than the bound.
WorkersOneMore == 1..(maxFetches + 1)

\* The worker goroutines of one fetch cycle.
Workers == 1..maxFetches

VARIABLES
    store,      \* the committed badger store: key |-> blob
    index,      \* the bleve index: document id |-> indexed record
    pc,         \* per caller: "idle", "loop" (in MultiUpdateRecord's closure), "done"
    op,         \* per caller: the operation called last
    records,    \* per caller: the records of the argument read so far
    snap,       \* per caller: the snapshot its transaction reads
    pending,    \* per caller: the pending writes of its transaction
    count,      \* per caller: MultiUpdateRecord's count
    err,        \* per caller: the error returned, "nil" for none
    indexFailed,\* per caller: index.Index returned an error during the call
    prevSingle, \* per caller: the batch of the call before this one when that was
                \* a MultiUpdateRecord of one record that returned nil, else <<>>
    found,      \* per caller: the text and the records of its last Query
    web,        \* web.Service: where its Start and its Stop call are, each
                \* "idle" (not called), "recv", "send", "return", "returned"
    runPc,      \* Service.Run: "new" (not called), "select", "send" (in the
                \* ticker case), "cancel", "tickerStop", "drain", "wait", "done"
    runFetch,   \* the buffered channel runFetch: the triggers it holds
    tickerC,    \* ticks held by ticker.C (its buffer holds one)
    ticks,      \* ticks the ticker has fired
    tickerStopped, \* ticker.Stop() has been called
    quitClosed, \* s.quit has been closed
    ctxDone,    \* the context shared by the fetch cycles is cancelled
    wg,         \* the counter of Run's WaitGroup
    stopPc,     \* per caller of Stop: "idle", "send" (s.quit <- struct{}{}),
                \* "recv" (<-s.quit), "returned", "panicked"
    cyc         \* per fetch cycle: the state of its Service.Fetch call

callVars == <<pc, op, records, snap, pending, count, err, indexFailed,
              prevSingle, found, web>>

fetcherVars == <<runPc, runFetch, tickerC, ticks, tickerStopped, quitClosed,
                 ctxDone, wg, stopPc, cyc>>

vars == <<store, index, pc, op, records, snap, pending, count, err,
          indexFailed, prevSingle, found, web, runPc, runFetch, tickerC, ticks,
          tickerStopped, quitClosed, ctxDone, wg, stopPc, cyc>>

\* web.New: neither Start nor Stop of the web service has been called.
NoService == [start |-> "idle", stop |-> "idle"]

\* No Query has been made.
NoQuery == [qry |-> "", records |-> {}]

\* A worker of a cycle that has not been spawned.
\* seen is the slice records as the worker read it for its append.
NoWorker == [pc |-> "none", url |-> <<>>, rec |-> <<>>, seen |-> <<>>]

\* A fetch cycle Run has not spawned.
NoCycle ==
    [pc      |-> "none",   \* Fetch: "run" (group at work), "write", "exited"
     prod    |-> "none",   \* the producer: "enum", "send", "done"
     urls    |-> <<>>,     \* the result of KnownURLs
     next    |-> 1,        \* the index of the producer's loop over urls
     urlsCh  |-> <<>>,     \* the buffered channel urlsCh
     closed  |-> FALSE,    \* urlsCh is closed
     wk      |-> [w \in Workers |-> NoWorker],
     mu      |-> 0,        \* the worker that holds mu, 0 for none
     records |-> <<>>,     \* the slice records
     built   |-> {},       \* the records recordFromURL returned to a worker
     notModified |-> {},   \* the URLs that answered 304
     gerr    |-> "nil",    \* the first error returned to the errgroup
     err     |-> "nil",    \* the error Fetch returned
     calls   |-> 0,        \* calls of MultiUpdateRecord made by the cycle
     taken   |-> <<>>,     \* the URLs its workers received, in order
     logged  |-> 0,        \* 1 once a worker has logged an error
     errsSeen |-> {}]      \* the cycles that had returned an error when Run
                           \* spawned this one

\* The service after fetcher.New, before Run is called.
FetcherInit ==
    /\ runPc = "new"
    /\ runFetch = <<>>
    /\ tickerC = 0
    /\ ticks = 0
    /\ tickerStopped = FALSE
    /\ quitClosed = FALSE
    /\ ctxDone = FALSE
    /\ wg = 0
    /\ stopPc = [s \in TwoStoppers |-> "idle"]
    /\ cyc = [cy \in Cycles |-> NoCycle]

Init ==
    /\ store = EmptyKV
    /\ index = EmptyKV
    /\ pc = [c \in Callers |-> "idle"]
    /\ op = [c \in Callers |-> "none"]
    /\ records = [c \in Callers |-> <<>>]
    /\ snap = [c \in Callers |-> EmptyKV]
    /\ pending = [c \in Callers |-> EmptyKV]
    /\ count = [c \in Callers |-> 0]
    /\ err = [c \in Callers |-> "nil"]
    /\ indexFailed = [c \in Callers |-> FALSE]
    /\ prevSingle = [c \in Callers |-> <<>>]
    /\ found = [c \in Callers |-> NoQuery]
    /\ web = NoService
    /\ FetcherInit

\* The batch of caller c's last call, when the next call may be compared with it.
SingleOK(c) ==
    IF op[c] = "MultiUpdateRecord" /\ pc[c] = "done" /\ err[c] = "nil"
       /\ Len(records[c]) = 1
    THEN records[c] ELSE <<>>

\* A call by c starts: what every operation records on entry.
Enter(c, name, args) ==
    /\ pc[c] # "loop"
    /\ op' = [op EXCEPT ![c] = name]
    /\ records' = [records EXCEPT ![c] = args]
    /\ snap' = [snap EXCEPT ![c] = store]
    /\ count' = [count EXCEPT ![c] = 0]
    /\ prevSingle' = [prevSingle EXCEPT ![c] = SingleOK(c)]
    /\ found' = [found EXCEPT ![c] = NoQuery]
    /\ UNCHANGED web
    /\ UNCHANGED fetcherVars

\* IndexURL(opkurl): one transaction that writes a zero-valued freshness
\* unless lastUpdated finds one.
IndexURL(c, opkurl) ==
    LET fresh == lastUpdated(opkurl, store)
        writes == IF fresh # <<>> THEN EmptyKV
                  ELSE Set(EmptyKV, urlKey(opkurl), freshness(ZeroTime, ""))
    IN  /\ Enter(c, "IndexURL", <<>>)
        /\ pending' = [pending EXCEPT ![c] = writes]
        /\ store' = dbUpdate(store, writes, "nil")
        /\ err' = [err EXCEPT ![c] = "nil"]
        /\ indexFailed' = [indexFailed EXCEPT ![c] = FALSE]
        /\ pc' = [pc EXCEPT ![c] = "done"]
        /\ UNCHANGED index

\* UpdateRecord(rec): refuses a record without hash, else one transaction
\* around updateRecord, with no test for an existing record.
UpdateRecord(c, rec, indexOK) ==
    /\ Enter(c, "UpdateRecord", <<rec>>)
    /\ pc' = [pc EXCEPT ![c] = "done"]
    /\ IF noHash(rec)
       THEN /\ err' = [err EXCEPT ![c] = "NoValidHash"]
            /\ pending' = [pending EXCEPT ![c] = EmptyKV]
            /\ indexFailed' = [indexFailed EXCEPT ![c] = FALSE]
            /\ UNCHANGED <<store, index>>
       ELSE LET r == updateRecord(rec, EmptyKV, index, indexOK) IN
            /\ err' = [err EXCEPT ![c] = r.err]
            /\ pending' = [pending EXCEPT ![c] = r.writes]
            /\ indexFailed' = [indexFailed EXCEPT ![c] = ~indexOK]
            /\ index' = r.index
            /\ store' = dbUpdate(store, r.writes, r.err)

\* MultiUpdateRecord(records) is called: count := 0 and the transaction of
\* db.Update begins. The batch is any sequence of at most MaxBatch records;
\* the loop reads it one record at a time and never looks ahead, so each
\* record is drawn when the loop reaches it and records[c] is the part of the
\* batch read so far (the whole batch once the call has returned nil).
MultiUpdateRecord(c) ==
    /\ Enter(c, "MultiUpdateRecord", <<>>)
    /\ pc' = [pc EXCEPT ![c] = "loop"]
    /\ pending' = [pending EXCEPT ![c] = EmptyKV]
    /\ err' = [err EXCEPT ![c] = "nil"]
    /\ indexFailed' = [indexFailed EXCEPT ![c] = FALSE]
    /\ UNCHANGED <<store, index>>

\* One iteration of the loop over the batch, on its next record rec.
\* The closure returns an error for a record without hash and for a failed
\* updateRecord, and db.Update then discards the transaction.
LoopRecord(c, rec, indexOK) ==
    /\ pc[c] = "loop"
    /\ Len(records[c]) < MaxBatch
    /\ records' = [records EXCEPT ![c] = Append(@, rec)]
    /\ UNCHANGED <<op, snap, prevSingle, found, web>>
    /\ UNCHANGED fetcherVars
    /\ IF noHash(rec)
       THEN /\ err' = [err EXCEPT ![c] = "NoValidHash"]
            /\ pc' = [pc EXCEPT ![c] = "done"]
            /\ store' = dbUpdate(store, pending[c], "NoValidHash")
            /\ UNCHANGED <<index, pending, count, indexFailed>>
       ELSE IF recordExists(rec.Hash, snap[c], pending[c])
       THEN UNCHANGED <<store, index, pc, pending, count, err, indexFailed>>
       ELSE LET r == updateRecord(rec, pending[c], index, indexOK) IN
            /\ pending' = [pending EXCEPT ![c] = r.writes]
            /\ index' = r.index
            /\ indexFailed' = [indexFailed EXCEPT ![c] = @ \/ ~indexOK]
            /\ IF r.err # "nil"
               THEN /\ err' = [err EXCEPT ![c] = r.err]
                    /\ pc' = [pc EXCEPT ![c] = "done"]
                    /\ store' = dbUpdate(store, r.writes, r.err)
                    /\ UNCHANGED count
               ELSE /\ count' = [count EXCEPT ![c] = @ + 1]
                    /\ UNCHANGED <<store, pc, err>>

\* The batch is exhausted: the closure returns nil and db.Update commits.
LoopEnd(c) ==
    /\ pc[c] = "loop"
    /\ pc' = [pc EXCEPT ![c] = "done"]
    /\ store' = dbUpdate(store, pending[c], "nil")
    /\ UNCHANGED <<index, op, records, snap, pending, count, err,
                   indexFailed, prevSingle, found, web>>
    /\ UNCHANGED fetcherVars

\* One caller at a time uses the store.
Next ==
    \/ \E opkurl \in URLs : IndexURL("c1", opkurl)
    \/ \E rec \in Records, indexOK \in BOOLEAN : UpdateRecord("c1", rec, indexOK)
    \/ MultiUpdateRecord("c1")
    \/ \E rec \in Records, indexOK \in BOOLEAN : LoopRecord("c1", rec, indexOK)
    \/ LoopEnd("c1")

Spec == Init /\ [][Next]_vars

\* ------------------------------------------------------------------ claims
\* A blob that holds a db.Record (a freshness blob has no URL field).
IsRecord(blob) == "URL" \in DOMAIN blob

\* The keys of kv under which a record with content hash h is stored.
RecordKeysOf(kv, h) == {k \in DOMAIN kv : IsRecord(kv[k]) /\ kv[k].Hash = h}

\* Caller c's MultiUpdateRecord has returned.
Returned(c) == op[c] = "MultiUpdateRecord" /\ pc[c] = "done"

\* The position of the first record of batch whose hash is that of batch[i].
FirstOffered(batch, i) ==
    CHOOSE j \in 1..i :
        /\ batch[j].Hash = batch[i].Hash
        /\ \A k \in 1..(j - 1) : batch[k].Hash # batch[i].Hash

\* C1. Dedup: after a MultiUpdateRecord that returned nil, every content hash
\* offered in the batch is stored exactly once, under the hash itself, and the
\* record stored is the one that was there before the call (an earlier batch
\* offered it) or else the first record of the batch with that hash, whatever
\* source URLs the later records with that hash have.
C1_Dedup ==
    \A c \in Callers :
        (Returned(c) /\ err[c] = "nil") =>
            \A i \in 1..Len(records[c]) :
                LET h == records[c][i].Hash IN
                /\ RecordKeysOf(store, h) = {h}
                /\ store[h] = IF h \in DOMAIN snap[c] THEN snap[c][h]
                              ELSE records[c][FirstOffered(records[c], i)]

\* Witness of C1: a batch of two records with one hash and two source URLs
\* was written to a store without that hash, and the first one is stored.
C1_Witness ==
    /\ Returned("c1") /\ err["c1"] = "nil"
    /\ Len(records["c1"]) = 2
    /\ records["c1"][1].Hash = records["c1"][2].Hash
    /\ records["c1"][1].URL # records["c1"][2].URL
    /\ records["c1"][1].Hash \notin DOMAIN snap["c1"]
    /\ store[records["c1"][1].Hash].URL = records["c1"][1].URL

\* C2. Idempotence: when MultiUpdateRecord([r]) returned nil and the next call
\* is MultiUpdateRecord([r]) again, the second call returns nil with count 0
\* and leaves the store as the first call left it; and recordExists(r.Hash)
\* holds after every MultiUpdateRecord that returned nil with r in its batch
\* (so after the first call, before and after the second).
C2_Idempotent ==
    \A c \in Callers :
        /\ (Returned(c) /\ err[c] = "nil") =>
               \A i \in 1..Len(records[c]) :
                   recordExists(records[c][i].Hash, store, EmptyKV)
        /\ (Returned(c) /\ prevSingle[c] # <<>> /\ records[c] = prevSingle[c]) =>
               /\ err[c] = "nil"
               /\ count[c] = 0
               /\ store = snap[c]
               /\ recordExists(records[c][1].Hash, snap[c], EmptyKV)

\* Witness of C2: the second of two equal single-record calls has returned, and
\* the record is one the first call inserted.
C2_Witness ==
    /\ Returned("c1")
    /\ prevSingle["c1"] # <<>>
    /\ records["c1"] = prevSingle["c1"]
    /\ store[records["c1"][1].Hash] = records["c1"][1]

\* C3. A batch with a record that has no hash: MultiUpdateRecord returns an
\* error and the store is what it was when the call began, so nothing of the
\* batch is committed, the valid records before the malformed one included.
C3_MalformedAborts ==
    \A c \in Callers :
        (Returned(c) /\ \E i \in 1..Len(records[c]) : Len(records[c][i].Hash) = 0) =>
            /\ err[c] # "nil"
            /\ store = snap[c]

\* Witness of C3: the malformed record came second, after a valid record that
\* the transaction had written (and counted).
C3_Witness ==
    /\ Returned("c1")
    /\ Len(records["c1"]) = 2
    /\ Len(records["c1"][2].Hash) = 0
    /\ count["c1"] = 1
    /\ records["c1"][1].Hash \in DOMAIN pending["c1"]
    /\ records["c1"][1].Hash \notin DOMAIN store

\* The record blobs among the pending writes of caller c.
PendingRecordKeys(c) == {k \in DOMAIN pending[c] : IsRecord(pending[c][k])}

\* Caller c's transaction has been committed.
Committed(c) == pc[c] = "done" /\ err[c] = "nil"

\* C4. Record and freshness are written atomically. Every record that a
\* MultiUpdateRecord transaction writes is new to the store and has a
\* freshness update of its source URL written in the same transaction (date
\* and etag of a record of the batch with that URL: the last one written).
\* The store shows the record exactly when the transaction has been
\* committed, and then it also shows the transaction's freshness under the
\* URL's key; while the transaction is open and after it failed the store is
\* what it was when the call began, with neither of them. No state shows one
\* without the other.
C4_RecordWithFreshness ==
    \A c \in Callers :
        op[c] = "MultiUpdateRecord" =>
            /\ ~Committed(c) => store = snap[c]
            /\ \A k \in PendingRecordKeys(c) :
                   LET r == pending[c][k]
                       fk == urlKey(r.URL)
                       recordIn == k \in DOMAIN store /\ store[k] = r
                       freshIn == fk \in DOMAIN store /\ store[fk] = pending[c][fk]
                   IN  /\ k \notin DOMAIN snap[c]
                       /\ fk \in DOMAIN pending[c]
                       /\ \E i \in 1..Len(records[c]) :
                              /\ records[c][i].URL = r.URL
                              /\ pending[c][fk] =
                                     freshness(records[c][i].Date, records[c][i].Etag)
                       /\ recordIn <=> Committed(c)
                       /\ recordIn => freshIn

\* Witness of C4: a failed batch left neither the record it had written nor
\* the freshness of that record's URL in the store.
C4_Witness ==
    /\ Returned("c1") /\ err["c1"] # "nil"
    /\ \E k \in PendingRecordKeys("c1") :
           /\ k \notin DOMAIN store
           /\ urlKey(pending["c1"][k].URL) \notin DOMAIN store

\* C5. The index never leads the store: whenever no transaction is open, every
\* document identifier of the search index is the key of a record in the
\* store. (Violated: updateRecord indexes the record inside the closure,
\* before db.Update commits, and a later error discards the transaction.)
C5_IndexWithinStore ==
    (\A c \in Callers : pc[c] # "loop") =>
        \A id \in DOMAIN index : id \in DOMAIN store /\ IsRecord(store[id])

SkipsExisting(c) ==
    /\ pc[c] = "loop"
    /\ Len(records'[c]) = Len(records[c]) + 1
    /\ LET rec == records'[c][Len(records'[c])] IN
       /\ Len(rec.Hash) > 0
       /\ rec.Hash \in DOMAIN View(snap[c], pending[c])

\* C7. A skip writes nothing: the step of MultiUpdateRecord's loop on a record
\* whose hash already exists (in the store or among the transaction's writes)
\* changes neither the transaction's pending writes (so not the record under
\* that hash and not the freshness of the skipped record's URL), nor the
\* store, nor the index, nor the count, and the call goes on.
C7_SkipWritesNothing ==
    [][\A c \in Callers :
          SkipsExisting(c) =>
              /\ pending'[c] = pending[c]
              /\ store' = store
              /\ index' = index
              /\ count'[c] = count[c]
              /\ pc'[c] = "loop"]_vars

\* Witness of C7: a call whose only record had a stored hash and a source URL
\* without freshness has returned, and that URL still has no freshness.
C7_Witness ==
    /\ Returned("c1") /\ err["c1"] = "nil"
    /\ Len(records["c1"]) = 1
    /\ records["c1"][1].Hash \in DOMAIN snap["c1"]
    /\ snap["c1"][records["c1"][1].Hash].URL # records["c1"][1].URL
    /\ urlKey(records["c1"][1].URL) \notin DOMAIN store
    /\ store = snap["c1"]
    /\ count["c1"] = 0

C9_NonEmptyIdentity ==
    \A k \in DOMAIN store :
        /\ IsRecord(store[k]) => Len(store[k].Hash) > 0
        /\ (~IsRecord(store[k]) /\ HasPrefix(k, urlPrefix)) => Len(k) > Len(urlPrefix)

\* C10. The count MultiUpdateRecord returns is the number of records the call
\* added to the store. (Violated: a call that fails returns the count of the
\* records written by the transaction it discards.)
C10_CountIsInserted ==
    \A c \in Callers :
        Returned(c) =>
            count[c] = Cardinality({k \in (DOMAIN store) \ (DOMAIN snap[c]) :
                                       IsRecord(store[k])})


\* ------------------------------------------------------ concurrent writers
\* Two fetch cycles that overlap call MultiUpdateRecord concurrently. db.Update
\* runs each closure in a transaction of its own that reads the snapshot taken
\* when it began (snap[c]) and its own pending writes; recordExists positions
\* an iterator and tests the key under it without reading the item, so the
\* transaction registers no read and its commit is never refused: LoopEnd
\* applies the pending writes over whatever is committed by then.
BeginBatch(c) ==
    /\ pc[c] = "idle"
    /\ MultiUpdateRecord(c)

NextConc ==
    \/ \E c \in Callers : BeginBatch(c)
    \/ \E c \in Callers, rec \in Records, indexOK \in BOOLEAN :
           LoopRecord(c, rec, indexOK)
    \/ \E c \in Callers : LoopEnd(c)

SpecConc == Init /\ [][NextConc]_vars

\* The callers whose transaction wrote a record under hash h and committed.
WritersOf(h) == {c \in Callers : Committed(c) /\ h \in DOMAIN pending[c]}

\* C11: when two overlapping MultiUpdateRecord calls have each offered one
\* record with the same content hash and returned, the store holds exactly
\* one record for that hash, only one of the calls wrote it, and the two
\* counts sum to 1.
C11_ConcurrentDedup ==
    (/\ Returned("c1") /\ Returned("c2")
     /\ Len(records["c1"]) = 1 /\ Len(records["c2"]) = 1
     /\ ~noHash(records["c1"][1])
     /\ records["c1"][1].Hash = records["c2"][1].Hash
     /\ err["c1"] = "nil" /\ err["c2"] = "nil")
    => LET h == records["c1"][1].Hash IN
       /\ RecordKeysOf(store, h) = {h}
       /\ Cardinality(WritersOf(h)) = 1
       /\ count["c1"] + count["c2"] = 1


\* ============================================================== the fetcher
\* Package fetcher (src/fetcher/fetcher.go): Service.Run spawns a fetch cycle
\* (Service.Fetch) for the startup trigger and for every tick of its ticker,
\* until Service.Stop hands it the quit signal. A cycle enumerates the known
\* URLs, fetches them with maxFetches workers and hands the records built to
\* MultiUpdateRecord.

\* ------------------------------------------------------------- KnownURLs
\* ishex and unhex of net/url.
ishex(c) ==
    (c >= 48 /\ c <= 57) \/ (c >= 97 /\ c <= 102) \/ (c >= 65 /\ c <= 70)

unhex(c) ==
    IF c >= 48 /\ c <= 57 THEN c - 48
    ELSE IF c >= 97 /\ c <= 102 THEN c - 97 + 10
    ELSE IF c >= 65 /\ c <= 70 THEN c - 65 + 10
    ELSE 0

\* url.PathUnescape: %XX becomes the byte it names; a '%' that is not
\* followed by two hex digits is an error.
RECURSIVE PathUnescape(_)
PathUnescape(s) ==
    IF Len(s) = 0 THEN [ok |-> TRUE, s |-> <<>>]
    ELSE IF Head(s) = 37
    THEN IF Len(s) < 3 \/ ~ishex(s[2]) \/ ~ishex(s[3])
         THEN [ok |-> FALSE, s |-> <<>>]
         ELSE LET r == PathUnescape(SubSeq(s, 4, Len(s))) IN
              [ok |-> r.ok,
               s  |-> IF r.ok THEN <<unhex(s[2]) * 16 + unhex(s[3])>> \o r.s
                      ELSE <<>>]
    ELSE LET r == PathUnescape(Tail(s)) IN
         [ok |-> r.ok, s |-> IF r.ok THEN <<Head(s)>> \o r.s ELSE <<>>]

\* bytes.TrimPrefix(key, prefix)
TrimPrefix(key, prefix) ==
    IF HasPrefix(key, prefix) THEN SubSeq(key, Len(prefix) + 1, Len(key))
    ELSE key

\* it.Next(): the smallest stored key after pos, InvalidPos when there is none.
IterNext(kv, pos) ==
    LET gt == {k \in DOMAIN kv : BytesLess(pos, k)} IN
    IF gt = {} THEN InvalidPos
    ELSE CHOOSE k \in gt : \A o \in gt : o = k \/ BytesLess(k, o)

\* &URLFreshness{URL, LastUpdate, Etag}
URLFreshness(opkurl, fresh) ==
    [URL |-> opkurl, LastUpdate |-> fresh.Date, Etag |-> fresh.Etag]

\* The loop of KnownURLs with the iterator at pos: the keys under "_url:" in
\* key order, each unescaped and paired with its decoded freshness.
RECURSIVE scanURLs(_, _)
scanURLs(kv, pos) ==
    IF ~ValidForPrefix(pos, urlPrefix) THEN [err |-> "nil", urls |-> <<>>]
    ELSE LET u == PathUnescape(TrimPrefix(pos, urlPrefix)) IN
         IF ~u.ok THEN [err |-> "EscapeError", urls |-> <<>>]
         ELSE LET rest == scanURLs(kv, IterNext(kv, pos)) IN
              [err  |-> rest.err,
               urls |-> IF rest.err = "nil"
                        THEN <<URLFreshness(u.s, decodeFreshness(kv[pos]))>>
                             \o rest.urls
                        ELSE <<>>]

\* KnownURLs(): a read-only transaction over the committed store; viewOK is
\* whether db.View itself succeeds.
KnownURLs(kv, viewOK) ==
    IF viewOK THEN scanURLs(kv, Seek(kv, urlPrefix))
    ELSE [err |-> "ViewError", urls |-> <<>>]

\* --------------------------------------------------------- recordFromURL
\* fromOPK: the record of the downloaded archive with digest hash.
fromOPK(hash, etag, opkurl) ==
    [URL |-> opkurl, Hash |-> hash, Date |-> FetchTime, Etag |-> etag,
     Entries |-> EntriesOf(hash)]

\* What the getter and the archive can answer for one source: a transport
\* error, a status without body, or 200 with an archive of digest hash, with
\* or without an Etag header, that downloads and parses (opkOK) or does not.
Responses ==
    {[err |-> TRUE, StatusCode |-> 0, Etag |-> <<>>, hash |-> <<>>,
      opkOK |-> FALSE]}
    \cup {[err |-> FALSE, StatusCode |-> sc, Etag |-> <<>>, hash |-> <<>>,
           opkOK |-> FALSE] : sc \in {304, 500}}
    \cup {[err |-> FALSE, StatusCode |-> 200, Etag |-> e, hash |-> h,
           opkOK |-> ok] :
              h \in Hashes, e \in {<<>>, <<"e1">>, <<"e2">>}, ok \in BOOLEAN}

\* The stages of recordFromURL: the conditional request, the copy of the
\* body to a temporary file, and fileSHA256 and extractOPK of fromOPK.
WorkGet == <<"get">>
WorkDownload == <<"get", "download">>
WorkBuild == <<"get", "download", "hash", "extract">>

\* A recordFromURL that does not tell 304 from 200.
recordFromURLNo304(opkurl, resp) ==
    IF resp.err THEN [rec |-> <<>>, err |-> "GetError", work |-> WorkGet]
    ELSE IF resp.StatusCode \notin {200, 304}
    THEN [rec |-> <<>>, err |-> "HTTPError", work |-> WorkGet]
    ELSE LET readEtag == IF Len(resp.Etag) > 0 THEN resp.Etag[1] ELSE "" IN
         IF readEtag = opkurl.Etag
         THEN [rec |-> <<>>, err |-> "nil", work |-> WorkGet]
         ELSE IF ~resp.opkOK
         THEN [rec |-> <<>>, err |-> "OPKError", work |-> WorkDownload]
         ELSE [rec |-> <<fromOPK(resp.hash, readEtag, opkurl.URL)>>,
               err |-> "nil", work |-> WorkBuild]

\* recordFromURL: <<record>> for a new archive, <<>> (nil) for a source that
\* is up to date, the error, and the stages it went through. An archive
\* that does not download or parse (~opkOK) fails after the download began.
recordFromURL(opkurl, resp) ==
    IF resp.err THEN [rec |-> <<>>, err |-> "GetError", work |-> WorkGet]
    ELSE IF resp.StatusCode = 304
    THEN [rec |-> <<>>, err |-> "nil", work |-> WorkGet]
    ELSE IF resp.StatusCode # 200
    THEN [rec |-> <<>>, err |-> "HTTPError", work |-> WorkGet]
    ELSE LET readEtag == IF Len(resp.Etag) > 0 THEN resp.Etag[1] ELSE "" IN
         IF readEtag = opkurl.Etag
         THEN [rec |-> <<>>, err |-> "nil", work |-> WorkGet]
         ELSE IF ~resp.opkOK
         THEN [rec |-> <<>>, err |-> "OPKError", work |-> WorkDownload]
         ELSE [rec |-> <<fromOPK(resp.hash, readEtag, opkurl.URL)>>,
               err |-> "nil", work |-> WorkBuild]

\* ------------------------------------------- MultiUpdateRecord as one call
\* A loop that advances the freshness of the source of a record it skips.
RECURSIVE multiLoopRefreshesSkipped(_, _, _, _, _, _)
multiLoopRefreshesSkipped(batch, snapshot, writes, idx, n, failAt) ==
    IF Len(batch) = 0
    THEN [writes |-> writes, index |-> idx, count |-> n, err |-> "nil"]
    ELSE LET rec == Head(batch) IN
         IF noHash(rec)
         THEN [writes |-> writes, index |-> idx, count |-> n,
               err |-> "NoValidHash"]
         ELSE IF recordExists(rec.Hash, snapshot, writes)
         THEN multiLoopRefreshesSkipped(
                  Tail(batch), snapshot,
                  Set(writes, urlKey(rec.URL), freshness(rec.Date, rec.Etag)),
                  idx, n, failAt)
         ELSE LET r == updateRecord(rec, writes, idx, failAt # 1) IN
              IF r.err # "nil"
              THEN [writes |-> r.writes, index |-> r.index, count |-> n,
                    err |-> r.err]
              ELSE multiLoopRefreshesSkipped(
                       Tail(batch), snapshot, r.writes, r.index, n + 1,
                       IF failAt > 0 THEN failAt - 1 ELSE 0)

\* The loop of MultiUpdateRecord over the rest of a batch. failAt is the
\* call of index.Index that fails, counted from the next one (0: none does).
RECURSIVE multiLoop(_, _, _, _, _, _)
multiLoop(batch, snapshot, writes, idx, n, failAt) ==
    IF Len(batch) = 0
    THEN [writes |-> writes, index |-> idx, count |-> n, err |-> "nil"]
    ELSE LET rec == Head(batch) IN
         IF noHash(rec)
         THEN [writes |-> writes, index |-> idx, count |-> n,
               err |-> "NoValidHash"]
         ELSE IF recordExists(rec.Hash, snapshot, writes)
         THEN multiLoop(Tail(batch), snapshot, writes, idx, n, failAt)
         ELSE LET r == updateRecord(rec, writes, idx, failAt # 1) IN
              IF r.err # "nil"
              THEN [writes |-> r.writes, index |-> r.index, count |-> n,
                    err |-> r.err]
              ELSE multiLoop(Tail(batch), snapshot, r.writes, r.index, n + 1,
                             IF failAt > 0 THEN failAt - 1 ELSE 0)

\* MultiUpdateRecord(batch) run from entry to return on the store kv and the
\* index idx, with no other writer in between.
MultiUpdateRecordCall(kv, idx, batch, failAt) ==
    LET r == multiLoop(batch, kv, EmptyKV, idx, 0, failAt) IN
    [store |-> dbUpdate(kv, r.writes, r.err), index |-> r.index,
     count |-> r.count, err |-> r.err]


\* ----------------------------------------------------------- Service.Fetch
\* The cycle Run spawns next.
NextCycle == Cardinality({cy \in Cycles : cyc[cy].pc # "none"}) + 1

\* Fetch has been entered: the producer and the maxFetches workers are
\* spawned in the errgroup, urlsCh and records are empty.
NewCycle ==
    [NoCycle EXCEPT !.pc = "run", !.prod = "enum",
                    !.wk = [w \in Workers |->
                               [NoWorker EXCEPT !.pc = "range"]]]

\* The workers of cycle cy that are inside recordFromURL.
InFlight(cy) == {w \in Workers : cyc[cy].wk[w].pc = "fetch"}

\* The producer calls KnownURLs; on an error it returns it to the group and
\* the deferred close(urlsCh) runs.
Enumerate(cy, viewOK) ==
    /\ cyc[cy].prod = "enum"
    /\ LET k == KnownURLs(store, viewOK) IN
       cyc' = [cyc EXCEPT ![cy] =
                 IF k.err # "nil"
                 THEN [@ EXCEPT !.prod = "done", !.closed = TRUE,
                                !.gerr = k.err]
                 ELSE [@ EXCEPT !.prod = "send", !.urls = k.urls]]
    /\ UNCHANGED <<store, index, callVars, runPc, runFetch, tickerC, ticks,
                   tickerStopped, quitClosed, ctxDone, wg, stopPc>>

\* The producer's select takes the send case: urlsCh has room.
ProducerSend(cy) ==
    /\ cyc[cy].prod = "send"
    /\ cyc[cy].next <= Len(cyc[cy].urls)
    /\ Len(cyc[cy].urlsCh) < maxFetches
    /\ cyc' = [cyc EXCEPT ![cy].urlsCh = Append(@, cyc[cy].urls[cyc[cy].next]),
                          ![cy].next = @ + 1]
    /\ UNCHANGED <<store, index, callVars, runPc, runFetch, tickerC, ticks,
                   tickerStopped, quitClosed, ctxDone, wg, stopPc>>

\* A producer that leaves the loop on ctx.Done() without closing urlsCh.
ProducerCancelledNoClose(cy) ==
    /\ cyc[cy].prod = "send"
    /\ cyc[cy].next <= Len(cyc[cy].urls)
    /\ ctxDone
    /\ cyc' = [cyc EXCEPT ![cy].prod = "done"]
    /\ UNCHANGED <<store, index, callVars, runPc, runFetch, tickerC, ticks,
                   tickerStopped, quitClosed, ctxDone, wg, stopPc>>

\* The producer's select takes the ctx.Done() case and leaves the loop; the
\* deferred close(urlsCh) runs.
ProducerCancelled(cy) ==
    /\ cyc[cy].prod = "send"
    /\ cyc[cy].next <= Len(cyc[cy].urls)
    /\ ctxDone
    /\ cyc' = [cyc EXCEPT ![cy].prod = "done", ![cy].closed = TRUE]
    /\ UNCHANGED <<store, index, callVars, runPc, runFetch, tickerC, ticks,
                   tickerStopped, quitClosed, ctxDone, wg, stopPc>>

\* The producer has sent every URL: it returns nil and urlsCh is closed.
ProducerDone(cy) ==
    /\ cyc[cy].prod = "send"
    /\ cyc[cy].next > Len(cyc[cy].urls)
    /\ cyc' = [cyc EXCEPT ![cy].prod = "done", ![cy].closed = TRUE]
    /\ UNCHANGED <<store, index, callVars, runPc, runFetch, tickerC, ticks,
                   tickerStopped, quitClosed, ctxDone, wg, stopPc>>

\* A worker's range over urlsCh receives the next URL.
WorkerRecv(cy, w) ==
    /\ cyc[cy].wk[w].pc = "range"
    /\ Len(cyc[cy].urlsCh) > 0
    /\ cyc' = [cyc EXCEPT ![cy].wk[w] =
                            [NoWorker EXCEPT !.pc = "fetch",
                                             !.url = <<Head(cyc[cy].urlsCh)>>],
                          ![cy].urlsCh = Tail(@),
                          ![cy].taken = Append(@, Head(cyc[cy].urlsCh).URL)]
    /\ UNCHANGED <<store, index, callVars, runPc, runFetch, tickerC, ticks,
                   tickerStopped, quitClosed, ctxDone, wg, stopPc>>

\* A worker that returns when the context is cancelled.
WorkerExitOnCancel(cy, w) ==
    /\ cyc[cy].wk[w].pc = "range"
    /\ ctxDone \/ (Len(cyc[cy].urlsCh) = 0 /\ cyc[cy].closed)
    /\ cyc' = [cyc EXCEPT ![cy].wk[w].pc = "done"]
    /\ UNCHANGED <<store, index, callVars, runPc, runFetch, tickerC, ticks,
                   tickerStopped, quitClosed, ctxDone, wg, stopPc>>

\* A worker's range ends: urlsCh is closed and empty, the worker returns nil.
WorkerExit(cy, w) ==
    /\ cyc[cy].wk[w].pc = "range"
    /\ Len(cyc[cy].urlsCh) = 0
    /\ cyc[cy].closed
    /\ cyc' = [cyc EXCEPT ![cy].wk[w].pc = "done"]
    /\ UNCHANGED <<store, index, callVars, runPc, runFetch, tickerC, ticks,
                   tickerStopped, quitClosed, ctxDone, wg, stopPc>>

\* A worker that gives up at the first source that fails.
WorkerFetchStopsOnError(cy, w, resp) ==
    /\ cyc[cy].wk[w].pc = "fetch"
    /\ LET r == recordFromURL(cyc[cy].wk[w].url[1], resp) IN
       cyc' = [cyc EXCEPT ![cy].wk[w] =
                 IF r.err # "nil"
                 THEN [NoWorker EXCEPT !.pc = "done"]
                 ELSE IF r.rec = <<>>
                 THEN [NoWorker EXCEPT !.pc = "range"]
                 ELSE [@ EXCEPT !.pc = "lock", !.rec = r.rec],
                          ![cy].built = @ \cup {r.rec[i] : i \in DOMAIN r.rec},
                          ![cy].notModified =
                              IF ~resp.err /\ resp.StatusCode = 304
                              THEN @ \cup {cyc[cy].wk[w].url[1].URL} ELSE @,
                          ![cy].logged = IF r.err # "nil" THEN 1 ELSE @]
    /\ UNCHANGED <<store, index, callVars, runPc, runFetch, tickerC, ticks,
                   tickerStopped, quitClosed, ctxDone, wg, stopPc>>

\* A worker that keeps what was built of an archive that failed to parse.
WorkerFetchKeepsPartial(cy, w, resp) ==
    /\ cyc[cy].wk[w].pc = "fetch"
    /\ LET r == recordFromURL(cyc[cy].wk[w].url[1], resp)
           partial == fromOPK(resp.hash, "", cyc[cy].wk[w].url[1].URL) IN
       cyc' = [cyc EXCEPT ![cy].wk[w] =
                 IF r.err = "OPKError"
                 THEN [@ EXCEPT !.pc = "lock", !.rec = <<partial>>]
                 ELSE IF r.err # "nil" \/ r.rec = <<>>
                 THEN [NoWorker EXCEPT !.pc = "range"]
                 ELSE [@ EXCEPT !.pc = "lock", !.rec = r.rec],
                          ![cy].built = @ \cup {r.rec[i] : i \in DOMAIN r.rec},
                          ![cy].notModified =
                              IF ~resp.err /\ resp.StatusCode = 304
                              THEN @ \cup {cyc[cy].wk[w].url[1].URL} ELSE @,
                          ![cy].logged = IF r.err # "nil" THEN 1 ELSE @]
    /\ UNCHANGED <<store, index, callVars, runPc, runFetch, tickerC, ticks,
                   tickerStopped, quitClosed, ctxDone, wg, stopPc>>

\* recordFromURL returns to the worker: an error is logged and a source that
\* is up to date is skipped (continue); a record goes on to mu.Lock(). The
\* count of logged errors stops at 1.
WorkerFetch(cy, w, resp) ==
    /\ cyc[cy].wk[w].pc = "fetch"
    /\ LET r == recordFromURL(cyc[cy].wk[w].url[1], resp) IN
       cyc' = [cyc EXCEPT ![cy].wk[w] =
                 IF r.err # "nil" \/ r.rec = <<>>
                 THEN [NoWorker EXCEPT !.pc = "range"]
                 ELSE [@ EXCEPT !.pc = "lock", !.rec = r.rec],
                          ![cy].built = @ \cup {r.rec[i] : i \in DOMAIN r.rec},
                          ![cy].notModified =
                              IF ~resp.err /\ resp.StatusCode = 304
                              THEN @ \cup {cyc[cy].wk[w].url[1].URL} ELSE @,
                          ![cy].logged = IF r.err # "nil" THEN 1 ELSE @]
    /\ UNCHANGED <<store, index, callVars, runPc, runFetch, tickerC, ticks,
                   tickerStopped, quitClosed, ctxDone, wg, stopPc>>

\* A worker that reads records for its append without holding mu.
WorkerLockNoMutex(cy, w) ==
    /\ cyc[cy].wk[w].pc = "lock"
    /\ cyc' = [cyc EXCEPT ![cy].wk[w].pc = "append",
                          ![cy].wk[w].seen = cyc[cy].records]
    /\ UNCHANGED <<store, index, callVars, runPc, runFetch, tickerC, ticks,
                   tickerStopped, quitClosed, ctxDone, wg, stopPc>>

\* mu.Lock() returns once no worker holds mu; append then reads records.
WorkerLock(cy, w) ==
    /\ cyc[cy].wk[w].pc = "lock"
    /\ cyc[cy].mu = 0
    /\ cyc' = [cyc EXCEPT ![cy].mu = w, ![cy].wk[w].pc = "append",
                          ![cy].wk[w].seen = cyc[cy].records]
    /\ UNCHANGED <<store, index, callVars, runPc, runFetch, tickerC, ticks,
                   tickerStopped, quitClosed, ctxDone, wg, stopPc>>

\* append stores the slice it read, grown by the record, in records;
\* mu.Unlock()
WorkerAppend(cy, w) ==
    /\ cyc[cy].wk[w].pc = "append"
    /\ cyc' = [cyc EXCEPT ![cy].records =
                              Append(cyc[cy].wk[w].seen, cyc[cy].wk[w].rec[1]),
                          ![cy].mu = 0,
                          ![cy].wk[w] = [NoWorker EXCEPT !.pc = "range"]]
    /\ UNCHANGED <<store, index, callVars, runPc, runFetch, tickerC, ticks,
                   tickerStopped, quitClosed, ctxDone, wg, stopPc>>

\* A group.Wait() that waits for the producer only.
GroupWaitProducerOnly(cy) ==
    /\ cyc[cy].pc = "run"
    /\ cyc[cy].prod = "done"
    /\ IF cyc[cy].gerr # "nil"
       THEN /\ cyc' = [cyc EXCEPT ![cy].pc = "exited", ![cy].err = cyc[cy].gerr]
            /\ wg' = wg - 1
       ELSE /\ cyc' = [cyc EXCEPT ![cy].pc = "write"]
            /\ UNCHANGED wg
    /\ UNCHANGED <<store, index, callVars, runPc, runFetch, tickerC, ticks,
                   tickerStopped, quitClosed, ctxDone, stopPc>>

\* A Fetch that goes on to the write whatever group.Wait() returned.
GroupWaitIgnoresError(cy) ==
    /\ cyc[cy].pc = "run"
    /\ cyc[cy].prod = "done"
    /\ \A w \in Workers : cyc[cy].wk[w].pc = "done"
    /\ cyc' = [cyc EXCEPT ![cy].pc = "write"]
    /\ UNCHANGED <<store, index, callVars, runPc, runFetch, tickerC, ticks,
                   tickerStopped, quitClosed, ctxDone, wg, stopPc>>

\* group.Wait() returns once the producer and every worker have returned.
\* With an error Fetch returns it, the goroutine Run spawned logs it and
\* runs wg.Done(); without one Fetch goes on to the write.
GroupWait(cy) ==
    /\ cyc[cy].pc = "run"
    /\ cyc[cy].prod = "done"
    /\ \A w \in Workers : cyc[cy].wk[w].pc = "done"
    /\ IF cyc[cy].gerr # "nil"
       THEN /\ cyc' = [cyc EXCEPT ![cy].pc = "exited", ![cy].err = cyc[cy].gerr]
            /\ wg' = wg - 1
       ELSE /\ cyc' = [cyc EXCEPT ![cy].pc = "write"]
            /\ UNCHANGED wg
    /\ UNCHANGED <<store, index, callVars, runPc, runFetch, tickerC, ticks,
                   tickerStopped, quitClosed, ctxDone, stopPc>>

\* s.storage.MultiUpdateRecord(records); Fetch returns its error, the
\* goroutine Run spawned logs the outcome and runs wg.Done(). The call is one
\* step here; calls that overlap are what SpecConc describes.
WriteBatch(cy, failAt) ==
    /\ cyc[cy].pc = "write"
    /\ failAt <= Len(cyc[cy].records)
    /\ LET r == MultiUpdateRecordCall(store, index, cyc[cy].records, failAt) IN
       /\ store' = r.store
       /\ index' = r.index
       /\ cyc' = [cyc EXCEPT ![cy].pc = "exited", ![cy].err = r.err,
                             ![cy].calls = @ + 1]
    /\ wg' = wg - 1
    /\ UNCHANGED <<callVars, runPc, runFetch, tickerC, ticks, tickerStopped,
                   quitClosed, ctxDone, stopPc>>


\* ------------------------------------------------------ Service.Run, Stop
\* Run is called: runFetch is made and the startup trigger is put in it.
RunStart ==
    /\ runPc = "new"
    /\ runPc' = "select"
    /\ runFetch' = Append(runFetch, TRUE)
    /\ UNCHANGED <<store, index, callVars, tickerC, ticks, tickerStopped,
                   quitClosed, ctxDone, wg, stopPc, cyc>>

\* The cycles that have returned an error.
FailedCycles == {cy \in Cycles : cyc[cy].pc = "exited" /\ cyc[cy].err # "nil"}

\* A trigger case that spawns no cycle while an earlier one is running.
RunTriggerSerial ==
    /\ runPc = "select"
    /\ Len(runFetch) > 0
    /\ runFetch' = Tail(runFetch)
    /\ IF \E cy \in Cycles : cyc[cy].pc \in {"run", "write"}
       THEN UNCHANGED <<wg, cyc>>
       ELSE /\ wg' = wg + 1
            /\ cyc' = [cyc EXCEPT ![NextCycle] =
                                    [NewCycle EXCEPT !.errsSeen = FailedCycles]]
    /\ UNCHANGED <<store, index, callVars, runPc, tickerC, ticks,
                   tickerStopped, quitClosed, ctxDone, stopPc>>

\* case <-runFetch: wg.Add(1) and a goroutine that runs Fetch is spawned.
RunTrigger ==
    /\ runPc = "select"
    /\ Len(runFetch) > 0
    /\ runFetch' = Tail(runFetch)
    /\ wg' = wg + 1
    /\ cyc' = [cyc EXCEPT ![NextCycle] =
                            [NewCycle EXCEPT !.errsSeen = FailedCycles]]
    /\ UNCHANGED <<store, index, callVars, runPc, tickerC, ticks,
                   tickerStopped, quitClosed, ctxDone, stopPc>>

\* case <-s.ticker.C: the tick is taken; the send to runFetch follows.
RunTick ==
    /\ runPc = "select"
    /\ tickerC > 0
    /\ tickerC' = tickerC - 1
    /\ runPc' = "send"
    /\ UNCHANGED <<store, index, callVars, runFetch, ticks, tickerStopped,
                   quitClosed, ctxDone, wg, stopPc, cyc>>

\* runFetch <- true in the ticker case: it blocks while runFetch is full.
RunSend ==
    /\ runPc = "send"
    /\ Len(runFetch) < RunFetchCap
    /\ runFetch' = Append(runFetch, TRUE)
    /\ runPc' = "select"
    /\ UNCHANGED <<store, index, callVars, tickerC, ticks, tickerStopped,
                   quitClosed, ctxDone, wg, stopPc, cyc>>

\* case <-s.quit: s.quit is unbuffered, so the receive of Run and the send of
\* a caller of Stop happen together.
RunQuit(s) ==
    /\ runPc = "select"
    /\ stopPc[s] = "send"
    /\ ~quitClosed
    /\ runPc' = "cancel"
    /\ stopPc' = [stopPc EXCEPT ![s] = "recv"]
    /\ UNCHANGED <<store, index, callVars, runFetch, tickerC, ticks,
                   tickerStopped, quitClosed, ctxDone, wg, cyc>>

\* cancel()
RunCancel ==
    /\ runPc = "cancel"
    /\ ctxDone' = TRUE
    /\ runPc' = "tickerStop"
    /\ UNCHANGED <<store, index, callVars, runFetch, tickerC, ticks,
                   tickerStopped, quitClosed, wg, stopPc, cyc>>

\* s.ticker.Stop()
RunTickerStop ==
    /\ runPc = "tickerStop"
    /\ tickerStopped' = TRUE
    /\ runPc' = "drain"
    /\ UNCHANGED <<store, index, callVars, runFetch, tickerC, ticks,
                   quitClosed, ctxDone, wg, stopPc, cyc>>

\* A drain loop that runs a fetch cycle for the trigger it finds.
RunDrainSpawning ==
    /\ runPc = "drain"
    /\ runFetch' = <<>>
    /\ runPc' = "wait"
    /\ IF Len(runFetch) > 0
       THEN /\ wg' = wg + 1
            /\ cyc' = [cyc EXCEPT ![NextCycle] = NewCycle]
       ELSE UNCHANGED <<wg, cyc>>
    /\ UNCHANGED <<store, index, callVars, tickerC, ticks, tickerStopped,
                   quitClosed, ctxDone, stopPc>>

\* close(runFetch) and the loop that drains it.
RunDrain ==
    /\ runPc = "drain"
    /\ runFetch' = <<>>
    /\ runPc' = "wait"
    /\ UNCHANGED <<store, index, callVars, tickerC, ticks, tickerStopped,
                   quitClosed, ctxDone, wg, stopPc, cyc>>

\* Run that returns without wg.Wait().
RunReturnNoWait ==
    /\ runPc = "wait"
    /\ runPc' = "done"
    /\ ctxDone' = TRUE
    /\ quitClosed' = TRUE
    /\ UNCHANGED <<store, index, callVars, runFetch, tickerC, ticks,
                   tickerStopped, wg, stopPc, cyc>>

\* wg.Wait() returns, Run leaves the loop and returns; the deferred cancel()
\* and close(s.quit) run.
RunReturn ==
    /\ runPc = "wait"
    /\ wg = 0
    /\ runPc' = "done"
    /\ ctxDone' = TRUE
    /\ quitClosed' = TRUE
    /\ UNCHANGED <<store, index, callVars, runFetch, tickerC, ticks,
                   tickerStopped, wg, stopPc, cyc>>

\* The ticker fires: ticker.C keeps one tick and drops the ones that find
\* it full.
Tick ==
    /\ ~tickerStopped
    /\ ticks < MaxTicks
    /\ ticks' = ticks + 1
    /\ tickerC' = 1
    /\ UNCHANGED <<store, index, callVars, runPc, runFetch, tickerStopped,
                   quitClosed, ctxDone, wg, stopPc, cyc>>

\* Stop is called: it goes to s.quit <- struct{}{}.
StopCall(s) ==
    /\ stopPc[s] = "idle"
    /\ stopPc' = [stopPc EXCEPT ![s] = "send"]
    /\ UNCHANGED <<store, index, callVars, runPc, runFetch, tickerC, ticks,
                   tickerStopped, quitClosed, ctxDone, wg, cyc>>

\* <-s.quit in Stop returns because s.quit is closed, and Stop returns nil.
StopReturn(s) ==
    /\ stopPc[s] = "recv"
    /\ quitClosed
    /\ stopPc' = [stopPc EXCEPT ![s] = "returned"]
    /\ UNCHANGED <<store, index, callVars, runPc, runFetch, tickerC, ticks,
                   tickerStopped, quitClosed, ctxDone, wg, cyc>>

\* The sources main registers with Add before it starts the service.
Registered ==
    [k \in {urlKey(u) : u \in SourceURLs} |-> freshness(ZeroTime, "")]

\* What the sources answer in a run of the scheduler: a transport error, or
\* the archive with digest Digest(1) and its Etag header.
RunResponses ==
    {resp \in Responses :
        \/ resp.err
        \/ /\ resp.StatusCode = 200 /\ resp.hash = Digest(1)
           /\ resp.Etag = <<EtagOf(resp.hash)>> /\ resp.opkOK}

InitRun ==
    /\ store = Registered
    /\ index = EmptyKV
    /\ pc = [c \in Callers |-> "idle"]
    /\ op = [c \in Callers |-> "none"]
    /\ records = [c \in Callers |-> <<>>]
    /\ snap = [c \in Callers |-> EmptyKV]
    /\ pending = [c \in Callers |-> EmptyKV]
    /\ count = [c \in Callers |-> 0]
    /\ err = [c \in Callers |-> "nil"]
    /\ indexFailed = [c \in Callers |-> FALSE]
    /\ prevSingle = [c \in Callers |-> <<>>]
    /\ found = [c \in Callers |-> NoQuery]
    /\ web = NoService
    /\ FetcherInit

\* A step of a fetch cycle whose sources answer from resps and whose index
\* fails at one of the calls fails (0: at none).
FetchStep(cy, resps, fails) ==
    \/ \E viewOK \in BOOLEAN : Enumerate(cy, viewOK)
    \/ ProducerSend(cy)
    \/ ProducerCancelled(cy)
    \/ ProducerDone(cy)
    \/ \E w \in Workers : WorkerRecv(cy, w)
    \/ \E w \in Workers : WorkerExit(cy, w)
    \/ \E w \in Workers, resp \in resps : WorkerFetch(cy, w, resp)
    \/ \E w \in Workers : WorkerLock(cy, w)
    \/ \E w \in Workers : WorkerAppend(cy, w)
    \/ GroupWait(cy)
    \/ \E failAt \in fails : WriteBatch(cy, failAt)

\* A step of a fetch cycle in a run of the scheduler.
CycleStep(cy) == FetchStep(cy, RunResponses, 0..1)

\* A step of Run.
RunStep ==
    \/ RunStart
    \/ RunTrigger
    \/ RunTick
    \/ RunSend
    \/ \E s \in Stoppers : RunQuit(s)
    \/ RunCancel
    \/ RunTickerStop
    \/ RunDrain
    \/ RunReturn

NextRun ==
    \/ RunStep
    \/ Tick
    \/ \E s \in Stoppers : StopCall(s)
    \/ \E s \in Stoppers : StopReturn(s)
    \/ \E cy \in Cycles : CycleStep(cy)

SpecRun == InitRun /\ [][NextRun]_vars


\* ------------------------------------------------------ claims: scheduler
\* The cycles Run has spawned, and those of them that have not exited.
SpawnedCycles == {cy \in Cycles : cyc[cy].pc # "none"}
RunningCycles == {cy \in Cycles : cyc[cy].pc \in {"run", "write"}}

\* C12: Stop is synchronous. In every state where the single caller of Stop
\* has returned, the shared context is cancelled, the ticker is stopped, Run
\* has returned with no trigger left, and every fetch cycle Run ever spawned
\* has exited; as this holds in every later state too, no cycle runs or
\* starts after Stop has returned.
C12_StopSynchronous ==
    \A s \in Stoppers :
        stopPc[s] = "returned" =>
            /\ ctxDone
            /\ tickerStopped
            /\ runPc = "done"
            /\ Len(runFetch) = 0
            /\ wg = 0
            /\ RunningCycles = {}

\* Stop has returned after Run had to wait for a cycle that the cancellation
\* reached while its producer still had URLs to send.
C12_Witness ==
    /\ stopPc["s1"] = "returned"
    /\ \E cy \in Cycles :
           /\ cyc[cy].pc = "exited"
           /\ cyc[cy].prod = "done"
           /\ cyc[cy].next <= Len(cyc[cy].urls)


\* The scheduler with the fairness Go's scheduler gives: a goroutine that can
\* take a step eventually takes one (Run, each fetch cycle, the return of
\* Stop). Nothing is assumed of the ticker or of when Stop is called.
SpecRunFair ==
    /\ SpecRun
    /\ WF_vars(RunStep)
    /\ WF_vars(\E s \in Stoppers : StopReturn(s))
    /\ \A cy \in Cycles : WF_vars(CycleStep(cy))

\* C13: shutdown liveness. Once Stop has been called while Run is executing,
\* Stop eventually returns and Run eventually returns.
C13_ShutdownCompletes ==
    \A s \in Stoppers :
        (stopPc[s] = "send" /\ runPc # "new")
            ~> (stopPc[s] = "returned" /\ runPc = "done")

\* The positions of Run after it has received the quit signal.
QuitPcs == {"cancel", "tickerStop", "drain", "wait", "done"}

\* C14: a step that leaves Run past the receipt of the quit signal starts no
\* fetch cycle, and once Run waits for its cycles the trigger queue is empty:
\* a trigger that was pending has been discarded.
C14_NoCycleAfterQuit ==
    [][runPc' \in QuitPcs =>
          /\ \A cy \in Cycles : cyc[cy].pc = "none" => cyc'[cy].pc = "none"
          /\ (runPc' \in {"wait", "done"} => Len(runFetch') = 0)]_vars

\* Run has returned without ever spawning a cycle: the startup trigger was
\* still pending when the quit signal was taken, and was discarded.
C14_Witness ==
    /\ runPc = "done"
    /\ SpawnedCycles = {}
    /\ stopPc["s1"] \in {"recv", "returned"}

\* C15: the Run loop never blocks forever while it enqueues a trigger: it is
\* never at the send of the ticker case with the trigger queue full (only
\* Run itself receives from runFetch, so that send would never complete).
C15_EnqueueNeverBlocks ==
    ~(runPc = "send" /\ Len(runFetch) = RunFetchCap)


\* A step in which Run's select takes a trigger from runFetch.
TriggerTaken ==
    /\ runPc = "select" /\ runPc' = "select"
    /\ Len(runFetch') < Len(runFetch)

\* The recordFromURL calls in flight in the whole service.
TotalInFlight ==
    Cardinality({<<cy, w>> \in Cycles \X Workers : w \in InFlight(cy)})

\* C16: fetch cycles are not serialized. A trigger taken while an earlier
\* cycle is still running spawns a new running cycle in that very step, and
\* the earlier cycles go on running.
C16_CyclesOverlap ==
    [][(TriggerTaken /\ RunningCycles # {}) =>
          /\ NextCycle \notin RunningCycles
          /\ cyc'[NextCycle].pc = "run"
          /\ \A cy \in RunningCycles : cyc'[cy] = cyc[cy]]_vars

\* Two cycles run at once and more than maxFetches fetches are in flight.
C16_Witness ==
    /\ Cardinality(RunningCycles) > 1
    /\ TotalInFlight > maxFetches

\* The step in which cycle cy returns an error to the goroutine Run spawned.
ReturnsError(cy) ==
    /\ cyc[cy].pc # "exited"
    /\ cyc'[cy].pc = "exited"
    /\ cyc'[cy].err # "nil"

\* C17: a fetch cycle that returns an error is only logged. The step in
\* which it returns changes nothing of the scheduler but the WaitGroup
\* counter, which wg.Done() lowers (so Run, its triggers and Stop go on as
\* they would); and a cycle whose enumeration failed never reaches the write:
\* it has called MultiUpdateRecord zero times and its return leaves the store
\* and the index as they were.
C17_ErrorOnlyLogged ==
    /\ [](\A cy \in Cycles : cyc[cy].gerr # "nil" =>
              /\ cyc[cy].calls = 0
              /\ cyc[cy].pc \in {"run", "exited"})
    /\ [][\A cy \in Cycles : ReturnsError(cy) =>
              /\ wg' = wg - 1
              /\ UNCHANGED <<runPc, runFetch, tickerC, ticks, tickerStopped,
                             quitClosed, ctxDone, stopPc>>
              /\ \A o \in Cycles \ {cy} : cyc'[o] = cyc[o]
              /\ (cyc[cy].gerr # "nil" => UNCHANGED <<store, index>>)]_vars

\* Cycle 1 failed to enumerate, Run spawned cycle 2 after that, its write
\* failed, and Stop has returned.
C17_Witness ==
    /\ cyc[1].pc = "exited" /\ cyc[1].gerr # "nil"
    /\ cyc[2].pc = "exited" /\ cyc[2].errsSeen = {1}
    /\ cyc[2].calls = 1 /\ cyc[2].err # "nil"
    /\ stopPc["s1"] = "returned"


\* ------------------------------------------------- Fetch called on its own
\* Fetch(ctx) is called once, by a goroutine of its own that has run
\* wg.Add(1); the caller may cancel ctx at any time.
FetchCall ==
    /\ \A cy \in Cycles : cyc[cy].pc = "none"
    /\ wg' = wg + 1
    /\ cyc' = [cyc EXCEPT ![NextCycle] =
                            [NewCycle EXCEPT !.errsSeen = FailedCycles]]
    /\ UNCHANGED <<store, index, callVars, runPc, runFetch, tickerC, ticks,
                   tickerStopped, quitClosed, ctxDone, stopPc>>

\* The caller's cancel().
CancelCtx ==
    /\ ~ctxDone
    /\ ctxDone' = TRUE
    /\ UNCHANGED <<store, index, callVars, runPc, runFetch, tickerC, ticks,
                   tickerStopped, quitClosed, wg, stopPc, cyc>>

\* The store with the URLs of S registered and nothing fetched.
RegisteredOf(S) ==
    [k \in {urlKey(u) : u \in S} |-> freshness(ZeroTime, "")]

\* The store and the index after an earlier cycle has fetched the archive
\* with digest Digest(1) from the registered source u.
FetchedBefore(S, u) ==
    MultiUpdateRecordCall(RegisteredOf(S), EmptyKV,
                          <<fromOPK(Digest(1), EtagOf(Digest(1)), u)>>, 0)

\* Any of the URLs may be registered, and one of the sources may have been
\* fetched before.
InitFetch ==
    /\ \E S \in SUBSET URLs :
           \/ store = RegisteredOf(S) /\ index = EmptyKV
           \/ \E u \in S \cap SourceURLs :
                  /\ store = FetchedBefore(S, u).store
                  /\ index = FetchedBefore(S, u).index
    /\ pc = [c \in Callers |-> "idle"]
    /\ op = [c \in Callers |-> "none"]
    /\ records = [c \in Callers |-> <<>>]
    /\ snap = [c \in Callers |-> EmptyKV]
    /\ pending = [c \in Callers |-> EmptyKV]
    /\ count = [c \in Callers |-> 0]
    /\ err = [c \in Callers |-> "nil"]
    /\ indexFailed = [c \in Callers |-> FALSE]
    /\ prevSingle = [c \in Callers |-> <<>>]
    /\ found = [c \in Callers |-> NoQuery]
    /\ web = NoService
    /\ FetcherInit

\* What the sources answer to a Fetch called on its own: a transport error,
\* 304, or 200 with an archive and its Etag header (the archive parses or
\* does not), or with the archive of digest Digest(1) and no Etag header.
FetchResponses ==
    {resp \in Responses :
        \/ resp.err
        \/ resp.StatusCode = 304
        \/ /\ resp.StatusCode = 200
           /\ \/ resp.Etag = <<EtagOf(resp.hash)>>
              \/ resp.Etag = <<>> /\ resp.hash = Digest(1) /\ resp.opkOK}

NextFetch ==
    \/ FetchCall
    \/ CancelCtx
    \/ \E cy \in Cycles : FetchStep(cy, FetchResponses, 0..Cardinality(URLs))

SpecFetch == InitFetch /\ [][NextFetch]_vars


\* ---------------------------------------------------- claims: fetch cycle
\* C18: within one fetch cycle at most maxFetches recordFromURL calls are in
\* flight at any instant, and urlsCh never holds more than maxFetches
\* pending sources.
C18_BoundedConcurrency ==
    \A cy \in Cycles :
        /\ Cardinality(InFlight(cy)) <= maxFetches
        /\ Len(cyc[cy].urlsCh) <= maxFetches

\* The bound is attained: maxFetches fetches in flight while the producer,
\* which had more sources than that, has a source waiting in urlsCh.
C18_Witness ==
    /\ Cardinality(InFlight(1)) = maxFetches
    /\ Len(cyc[1].urlsCh) > 0

\* The URLs of the sources the producer of cycle cy enumerated, in order.
EnumeratedURLs(cy) == [i \in 1..Len(cyc[cy].urls) |-> cyc[cy].urls[i].URL]

\* C19: in a cycle whose context is not cancelled and whose enumeration
\* succeeded, by the time group.Wait() has returned every enumerated source
\* has been received by a worker exactly once, whether or not a fetch failed,
\* and the cycle that has returned has called MultiUpdateRecord once.
C19_FailureIsolated ==
    \A cy \in Cycles :
        (cyc[cy].pc \in {"write", "exited"} /\ ~ctxDone /\ cyc[cy].gerr = "nil")
        => /\ cyc[cy].taken = EnumeratedURLs(cy)
           /\ (cyc[cy].pc = "exited" => cyc[cy].calls = 1)

\* A cycle over three sources, not cancelled, in which a fetch failed and
\* another built a record, has handed its batch to the store.
C19_Witness ==
    /\ cyc[1].pc = "exited" /\ ~ctxDone
    /\ Len(cyc[1].urls) = Cardinality(URLs)
    /\ cyc[1].logged = 1
    /\ Len(cyc[1].records) > 0
    /\ cyc[1].calls = 1

\* C20: each fetch cycle calls MultiUpdateRecord at most once, and only after
\* the producer and all workers have exited; from the moment group.Wait()
\* has returned no record is appended to the batch.
C20_WriteAfterWorkers ==
    /\ [](\A cy \in Cycles :
              /\ cyc[cy].calls <= 1
              /\ (cyc[cy].calls = 1 => cyc[cy].pc = "exited")
              /\ (cyc[cy].pc \in {"write", "exited"} =>
                     /\ cyc[cy].prod = "done"
                     /\ \A w \in Workers : cyc[cy].wk[w].pc = "done"))
    /\ [][\A cy \in Cycles :
              cyc[cy].pc \in {"write", "exited"} =>
                  cyc'[cy].records = cyc[cy].records]_vars

\* A cycle has written a batch of two records or more.
C20_Witness ==
    /\ cyc[1].pc = "exited"
    /\ cyc[1].calls = 1
    /\ Len(cyc[1].records) > 1

\* C21: in a cycle that has finished its fetches without cancellation, the
\* batch handed to the store holds each record a build returned exactly once
\* and nothing else: one record per enumerated source that was built, none
\* for a source that was unchanged or failed.
C21_BatchIsBuilt ==
    \A cy \in Cycles :
        (cyc[cy].pc \in {"write", "exited"} /\ ~ctxDone /\ cyc[cy].gerr = "nil")
        => LET recs == cyc[cy].records IN
           /\ {recs[i] : i \in DOMAIN recs} = cyc[cy].built
           /\ Len(recs) = Cardinality(cyc[cy].built)
           /\ \A i, j \in DOMAIN recs : recs[i].URL = recs[j].URL => i = j
           /\ \A i \in DOMAIN recs :
                  \E k \in DOMAIN cyc[cy].urls :
                      cyc[cy].urls[k].URL = recs[i].URL

\* A cycle over three sources, not cancelled, has finished with two records
\* built and one source that failed.
C21_Witness ==
    /\ cyc[1].pc \in {"write", "exited"} /\ ~ctxDone
    /\ Len(cyc[1].urls) = Cardinality(URLs)
    /\ Cardinality(cyc[1].built) = 2
    /\ Len(cyc[1].records) = 2
    /\ cyc[1].logged = 1

\* Fetch called on its own under the fairness Go's scheduler gives its
\* goroutines: while the producer, a worker or Fetch itself can take a step,
\* one of them eventually does; in particular every call of recordFromURL
\* returns. Nothing is assumed of the caller's cancel(). A source fails or
\* answers with a new archive, as in SpecRun.
NextFetchFair ==
    \/ FetchCall
    \/ CancelCtx
    \/ \E cy \in Cycles : CycleStep(cy)

SpecFetchFair ==
    /\ InitFetch
    /\ [][NextFetchFair]_vars
    /\ WF_vars(\E cy \in Cycles : CycleStep(cy))

\* C22: every fetch cycle completes: once Fetch has been entered, eventually
\* urlsCh is closed, every worker has returned and Fetch has returned,
\* whether the producer sends all sources or leaves on cancellation.
C22_CycleCompletes ==
    \A cy \in Cycles :
        (cyc[cy].pc = "run")
            ~> /\ cyc[cy].pc = "exited"
               /\ cyc[cy].closed
               /\ \A w \in Workers : cyc[cy].wk[w].pc = "done"

\* A cycle cancelled while its producer still had sources to send has
\* returned, after a worker had received a source.
C22_Witness ==
    /\ cyc[1].pc = "exited" /\ ctxDone
    /\ cyc[1].next <= Len(cyc[1].urls)
    /\ Len(cyc[1].taken) > 0

\* C23: once Run has cancelled the context shared by the cycles, after Stop's
\* quit signal, the producer of no cycle sends a further source to urlsCh.
C23_NoSendAfterCancel ==
    [][ctxDone => \A cy \in Cycles : cyc'[cy].next = cyc[cy].next]_vars

\* C24: a worker whose source answers 304 does the conditional request and
\* nothing more (no download, hashing or extraction), adds no record to the
\* batch and goes on to the next source; and when the cycle has returned,
\* the batch has no record of that source and its stored freshness is the
\* one the cycle enumerated.
C24_NotModifiedSkipped ==
    /\ [][\A cy \in Cycles, w \in Workers, resp \in FetchResponses :
              (~resp.err /\ resp.StatusCode = 304 /\ WorkerFetch(cy, w, resp))
              => /\ recordFromURL(cyc[cy].wk[w].url[1], resp).work = WorkGet
                 /\ cyc'[cy].wk[w] = [NoWorker EXCEPT !.pc = "range"]
                 /\ cyc'[cy].records = cyc[cy].records
                 /\ cyc'[cy].built = cyc[cy].built
                 /\ store' = store /\ index' = index]_vars
    /\ [](\A cy \in Cycles :
              cyc[cy].pc = "exited" =>
                  \A k \in DOMAIN cyc[cy].urls :
                      LET u == cyc[cy].urls[k] IN
                      u.URL \in cyc[cy].notModified =>
                          /\ \A i \in DOMAIN cyc[cy].records :
                                 cyc[cy].records[i].URL # u.URL
                          /\ urlKey(u.URL) \in DOMAIN store
                          /\ decodeFreshness(store[urlKey(u.URL)])
                                 = [Date |-> u.LastUpdate, Etag |-> u.Etag])

\* A cycle has written a batch with a record while another of its sources,
\* fetched before, answered 304.
C24_Witness ==
    /\ cyc[1].pc = "exited" /\ cyc[1].calls = 1 /\ cyc[1].err = "nil"
    /\ Len(cyc[1].records) > 0
    /\ \E k \in DOMAIN cyc[1].urls :
           /\ cyc[1].urls[k].URL \in cyc[1].notModified
           /\ cyc[1].urls[k].Etag # ""

\* C25: a source that answers 200 is reported unchanged (no record, no
\* error) only when the response carries an Etag header equal to the stored
\* etag; in particular a source whose stored etag is empty is never reported
\* unchanged on a 200 answer.
C25_UnchangedOnlyOnEqualEtag ==
    [][\A cy \in Cycles, w \in Workers, resp \in FetchResponses :
          (~resp.err /\ resp.StatusCode = 200 /\ WorkerFetch(cy, w, resp))
          => LET opkurl == cyc[cy].wk[w].url[1]
                 r == recordFromURL(opkurl, resp) IN
             (r.rec = <<>> /\ r.err = "nil") =>
                 /\ resp.Etag = <<opkurl.Etag>>
                 /\ opkurl.Etag # ""]_vars

\* C26: a step changes the stored freshness of a source only if it is the
\* write of a cycle that newly inserts a record built from that source, and
\* the freshness then is that record's; a worker whose source failed or is
\* unchanged adds nothing to the batch; and when a cycle has returned, a
\* source of which it built no record has no record in the batch and keeps
\* the freshness the cycle enumerated.
C26_FreshnessFrame ==
    /\ [][\A u \in URLs :
              LET k == urlKey(u) IN
              (k \in DOMAIN store' /\ (k \notin DOMAIN store \/ store'[k] # store[k]))
              => \E cy \in Cycles :
                     /\ cyc[cy].pc = "write" /\ cyc'[cy].pc = "exited"
                     /\ \E r \in cyc[cy].built :
                            /\ r.URL = u
                            /\ r.Hash \notin DOMAIN store
                            /\ r.Hash \in DOMAIN store' /\ store'[r.Hash] = r
                            /\ decodeFreshness(store'[k])
                                   = [Date |-> r.Date, Etag |-> r.Etag]]_vars
    /\ [][\A cy \in Cycles, w \in Workers, resp \in FetchResponses :
              LET r == recordFromURL(cyc[cy].wk[w].url[1], resp) IN
              (WorkerFetch(cy, w, resp) /\ (r.err # "nil" \/ r.rec = <<>>))
              => /\ cyc'[cy].wk[w] = [NoWorker EXCEPT !.pc = "range"]
                 /\ cyc'[cy].records = cyc[cy].records
                 /\ cyc'[cy].built = cyc[cy].built
                 /\ store' = store /\ index' = index]_vars
    /\ [](\A cy \in Cycles :
              cyc[cy].pc = "exited" =>
                  \A k \in DOMAIN cyc[cy].urls :
                      LET u == cyc[cy].urls[k] IN
                      (~\E r \in cyc[cy].built : r.URL = u.URL) =>
                          /\ \A i \in DOMAIN cyc[cy].records :
                                 cyc[cy].records[i].URL # u.URL
                          /\ urlKey(u.URL) \in DOMAIN store
                          /\ decodeFreshness(store[urlKey(u.URL)])
                                 = [Date |-> u.LastUpdate, Etag |-> u.Etag])

\* A cycle over three sources has returned: one failed, one answered 304,
\* and the record built from the third was inserted and advanced its
\* freshness.
C26_Witness ==
    /\ cyc[1].pc = "exited" /\ cyc[1].err = "nil"
    /\ cyc[1].logged = 1
    /\ cyc[1].notModified # {}
    /\ \E r \in cyc[1].built, k \in DOMAIN cyc[1].urls :
           /\ cyc[1].urls[k].URL = r.URL
           /\ cyc[1].urls[k].Etag # r.Etag
           /\ store[r.Hash] = r
           /\ store[urlKey(r.URL)].Etag = r.Etag

\* C27: a source that answers 200 with an Etag header different from its
\* stored etag and an archive whose hash is stored is downloaded and built
\* in full; the write of a cycle skips every batch record whose hash is
\* stored and leaves the freshness of its source as it was. So the source is
\* built again in every later cycle.
C27_RebuiltForever ==
    /\ [][\A cy \in Cycles, w \in Workers, resp \in RunResponses :
              LET opkurl == cyc[cy].wk[w].url[1]
                  r == recordFromURL(opkurl, resp) IN
              (/\ WorkerFetch(cy, w, resp)
               /\ ~resp.err /\ resp.StatusCode = 200 /\ resp.opkOK
               /\ resp.Etag # <<>> /\ resp.Etag # <<opkurl.Etag>>
               /\ resp.hash \in DOMAIN store)
              => /\ r.work = WorkBuild
                 /\ r.rec = <<fromOPK(resp.hash, resp.Etag[1], opkurl.URL)>>
                 /\ cyc'[cy].wk[w].pc = "lock"
                 /\ cyc'[cy].wk[w].rec = r.rec]_vars
    /\ [][\A cy \in Cycles :
              (cyc[cy].pc = "write" /\ cyc'[cy].pc = "exited")
              => \A i \in DOMAIN cyc[cy].records :
                     LET rec == cyc[cy].records[i] IN
                     rec.Hash \in DOMAIN store =>
                         /\ store'[rec.Hash] = store[rec.Hash]
                         /\ store'[urlKey(rec.URL)] = store[urlKey(rec.URL)]]_vars

\* The second cycle has built and written the record of a source the first
\* cycle had built too: its archive is stored under the other source, and
\* its freshness is still zero-valued.
C27_Witness ==
    /\ cyc[2].pc = "exited" /\ cyc[2].err = "nil" /\ cyc[2].calls = 1
    /\ \E r2 \in cyc[2].built, r1 \in cyc[1].built :
           /\ r1.URL = r2.URL /\ r1.Hash = r2.Hash
           /\ \E i \in DOMAIN cyc[2].records : cyc[2].records[i] = r2
           /\ r2.Hash \in DOMAIN store /\ store[r2.Hash].URL # r2.URL
           /\ store[urlKey(r2.URL)] = freshness(ZeroTime, "")

\* C28: IndexURL of a URL that has no freshness entry adds a zero-valued
\* one and changes nothing else; IndexURL of a URL that has one, zero-valued
\* or advanced by a fetch, leaves the store as it is. The index is never
\* touched.
C28_IndexURLIdempotent ==
    [][\A opkurl \in URLs :
          IndexURL("c1", opkurl) =>
              /\ index' = index
              /\ err'["c1"] = "nil"
              /\ IF urlKey(opkurl) \in DOMAIN store
                 THEN store' = store
                 ELSE store' = Set(store, urlKey(opkurl),
                                   freshness(ZeroTime, ""))]_vars

\* IndexURL has returned without a write while every freshness entry of the
\* store, two or more, had been advanced by the insertion of a record.
C28_Witness ==
    /\ op["c1"] = "IndexURL" /\ pc["c1"] = "done"
    /\ pending["c1"] = EmptyKV
    /\ Cardinality({u \in URLs : urlKey(u) \in DOMAIN store}) >= 2
    /\ \A u \in URLs :
           urlKey(u) \in DOMAIN store => store[urlKey(u)].Date = FetchTime

\* -------------------------------------------- hashes of any content
\* UpdateRecord and MultiUpdateRecord take the hash of a record as the bytes
\* the caller gives, of any length and content but empty: here a digest, its
\* first byte, or the bytes "_url:%2F".
RawHashes == {Digest(1), SubSeq(Digest(1), 1, 1), urlKey(<<47>>)}

\* The records offered, all of the source "a".
RawRecords == {Rec(<<97>>, h) : h \in RawHashes}

NextRaw ==
    \/ \E opkurl \in URLs : IndexURL("c1", opkurl)
    \/ \E rec \in RawRecords, indexOK \in BOOLEAN :
           UpdateRecord("c1", rec, indexOK)
    \/ MultiUpdateRecord("c1")
    \/ \E rec \in RawRecords, indexOK \in BOOLEAN :
           LoopRecord("c1", rec, indexOK)
    \/ LoopEnd("c1")

SpecRaw == Init /\ [][NextRaw]_vars

\* C29: record keys and freshness keys never collide: no key under the
\* prefix "_url:" holds a record blob, no record is stored under a key other
\* than its hash, and every entry KnownURLs returns is read from a freshness
\* entry.
C29_KeysDisjoint ==
    /\ \A k \in DOMAIN store :
           IsRecord(store[k]) => (k = store[k].Hash /\ ~HasPrefix(k, urlPrefix))
    /\ LET known == KnownURLs(store, TRUE) IN
       \A i \in DOMAIN known.urls :
           ~IsRecord(store[urlKey(known.urls[i].URL)])

\* ------------------------------------------------------------------ Query
\* The index is made with bleve.NewIndexMapping(): text is split into words,
\* lower-cased, and English stop words are dropped, when a document is
\* indexed and when a match query is analysed. Of the texts of the model
\* "Foo" gives the term "foo"; "The", "a" and "" give none.
StopWords == {"the", "a"}

ToLower(text) ==
    IF text = "Foo" THEN "foo" ELSE IF text = "The" THEN "the" ELSE text

\* The words of a text: "Foo e2" has two, "" none, the others one.
Words(text) ==
    IF text = "" THEN {}
    ELSE IF text = "Foo e2" THEN {"Foo", "e2"}
    ELSE {text}

Analyze(text) == {ToLower(w) : w \in Words(text)} \ StopWords

\* The terms of an indexed record: those of its entry names and its etag
\* (its URL, "a" or "/", has none).
DocTerms(doc) ==
    Analyze(doc.Etag)
    \cup UNION {Analyze(doc.Entries[i].Name) : i \in DOMAIN doc.Entries}

\* The size of the search request.
QuerySize == 100

\* A search for the exact term qry, without analysis.
SearchTerm(idx, qry) ==
    {id \in DOMAIN idx : qry \in DocTerms(idx[id])}

\* index.Search of bleve.NewMatchQuery(qry) with size QuerySize: the ids of
\* the documents that have a term of the analysed query, QuerySize of them at
\* most. Which ones are kept beyond QuerySize, by the sort on Entries.Name,
\* is not modelled.
Search(idx, qry) ==
    LET hits == {id \in DOMAIN idx : Analyze(qry) \cap DocTerms(idx[id]) # {}}
    IN  IF Cardinality(hits) <= QuerySize THEN hits
        ELSE CHOOSE S \in SUBSET hits : Cardinality(S) = QuerySize

\* A Query that returns the error of a hit without stored record.
QueryFailsOnMissing(qry, idx, kv) ==
    IF qry = "" THEN [err |-> "EmptyQuery", records |-> {}]
    ELSE IF Search(idx, qry) \subseteq DOMAIN kv
    THEN [err |-> "nil", records |-> {kv[id] : id \in Search(idx, qry)}]
    ELSE [err |-> "KeyNotFound", records |-> {}]

\* Query(qry): an error for the empty string; else the stored records of the
\* hits, a hit without stored record being skipped. The result is given as
\* the set of the records returned.
Query(qry, idx, kv) ==
    IF qry = "" THEN [err |-> "EmptyQuery", records |-> {}]
    ELSE [err |-> "nil",
          records |-> {kv[id] : id \in Search(idx, qry) \cap DOMAIN kv}]

\* The records caller c's MultiUpdateRecord, returned without error, has
\* inserted.
InsertedBy(c) ==
    IF op[c] = "MultiUpdateRecord" /\ pc[c] = "done" /\ err[c] = "nil"
    THEN {records[c][i] : i \in {j \in DOMAIN records[c] :
                 /\ records[c][j].Hash \in DOMAIN pending[c]
                 /\ pending[c][records[c][j].Hash] = records[c][j]}}
    ELSE {}

\* C30 as stated: once MultiUpdateRecord has inserted a record that has an
\* entry named N, Query(N) succeeds and returns that record.
C30_QueryRoundTrip ==
    \A rec \in InsertedBy("c1") :
        \A i \in DOMAIN rec.Entries :
            LET q == Query(rec.Entries[i].Name, index, store) IN
            q.err = "nil" /\ rec \in q.records

\* C30, amended: once MultiUpdateRecord has inserted a record that has an
\* entry named N, Query(N) succeeds and returns that record, provided the
\* analysis of N leaves a term and no more than QuerySize documents match.
C30_QueryRoundTripOfTerms ==
    \A rec \in InsertedBy("c1") :
        \A i \in DOMAIN rec.Entries :
            LET N == rec.Entries[i].Name
                q == Query(N, index, store) IN
            (Analyze(N) # {} /\ Cardinality(Search(index, N)) <= QuerySize)
            => q.err = "nil" /\ rec \in q.records

\* A batch of two records has been inserted, one with an entry named "Foo",
\* and Query("Foo") returns exactly that one.
C30_Witness ==
    /\ Cardinality(InsertedBy("c1")) = 2
    /\ \E rec \in InsertedBy("c1") :
           /\ \E i \in DOMAIN rec.Entries : rec.Entries[i].Name = "Foo"
           /\ Query("Foo", index, store).records = {rec}

\* ------------------------------------------------- Query beside a writer
\* The texts queried: "", one word, two words.
QueryTexts == {"", "Foo", "Foo e2"}

\* Query(qry) called by c: the index is searched as it is, and the hits are
\* read in a read-only transaction on the committed store.
QueryCall(c, qry) ==
    /\ pc[c] # "loop"
    /\ LET q == Query(qry, index, store) IN
       /\ err' = [err EXCEPT ![c] = q.err]
       /\ found' = [found EXCEPT ![c] = [qry |-> qry, records |-> q.records]]
    /\ op' = [op EXCEPT ![c] = "Query"]
    /\ pc' = [pc EXCEPT ![c] = "done"]
    /\ UNCHANGED <<store, index, records, snap, pending, count, indexFailed,
                   prevSingle, web>>
    /\ UNCHANGED fetcherVars

\* Caller c1 writes batches while caller c2 queries.
NextQuery ==
    \/ MultiUpdateRecord("c1")
    \/ \E rec \in Records, indexOK \in BOOLEAN : LoopRecord("c1", rec, indexOK)
    \/ LoopEnd("c1")
    \/ \E qry \in QueryTexts : QueryCall("c2", qry)

SpecQuery == Init /\ [][NextQuery]_vars

\* The documents of the index that match qry and have no stored record.
StaleHits(qry) ==
    {id \in DOMAIN index :
        Analyze(qry) \cap DocTerms(index[id]) # {} /\ id \notin DOMAIN store}

\* C31: a Query changes neither the store nor the index; a Query of a text
\* that is not empty returns no error, whether or not a matching document
\* has no stored record, and returns the stored record of every matching
\* document that has one, and only stored records.
C31_QueryToleratesStaleIndex ==
    [][\A qry \in QueryTexts :
          QueryCall("c2", qry) =>
              /\ store' = store /\ index' = index
              /\ qry # "" =>
                     /\ err'["c2"] = "nil"
                     /\ \A id \in DOMAIN index :
                            (id \in DOMAIN store
                             /\ Analyze(qry) \cap DocTerms(index[id]) # {})
                            => store[id] \in found'["c2"].records
                     /\ \A r \in found'["c2"].records :
                            \E id \in DOMAIN index \cap DOMAIN store :
                                store[id] = r]_vars

\* A Query has returned a record while another document that matches its
\* text has no stored record.
C31_Witness ==
    /\ op["c2"] = "Query" /\ pc["c2"] = "done" /\ err["c2"] = "nil"
    /\ found["c2"].records # {}
    /\ StaleHits(found["c2"].qry) # {}
    /\ found["c2"].records =
           Query(found["c2"].qry, index, store).records

\* ----------------------------------------------------------- GetIfModified
\* since.Format("Mon, 2 Jan 2006 15:04:05 MST"): the text of the instant in
\* that layout.
FormatTime(since) == <<"Mon, 2 Jan 2006 15:04:05 MST", since>>

\* No header.
NoHeader == [h \in {} |-> h]

\* A GetIfModified that sends both validators when it has both.
GetIfModifiedBoth(since, etag, opkurl) ==
    [URL    |-> opkurl,
     Header |-> [h \in (IF etag # "" THEN {"If-None-Match"} ELSE {})
                       \cup (IF since # ZeroTime THEN {"If-Modified-Since"}
                             ELSE {}) |->
                    IF h = "If-None-Match" THEN <<etag>>
                    ELSE <<FormatTime(since)>>]]

\* Getter.GetIfModified: the GET request it hands to the client.
GetIfModified(since, etag, opkurl) ==
    [URL    |-> opkurl,
     Header |-> IF etag # "" THEN [h \in {"If-None-Match"} |-> <<etag>>]
                ELSE IF since # ZeroTime
                THEN [h \in {"If-Modified-Since"} |-> <<FormatTime(since)>>]
                ELSE NoHeader]

\* The request of worker w of cycle cy, which is inside recordFromURL.
RequestOf(cy, w) ==
    LET opkurl == cyc[cy].wk[w].url[1] IN
    GetIfModified(opkurl.LastUpdate, opkurl.Etag, opkurl.URL)

\* The store and the index after an earlier cycle has fetched the archive
\* with digest Digest(1) from the registered source u, whose answer had no
\* Etag header.
FetchedBeforeNoEtag(S, u) ==
    MultiUpdateRecordCall(RegisteredOf(S), EmptyKV,
                          <<fromOPK(Digest(1), "", u)>>, 0)

\* Any of the URLs may be registered, and one of the sources may have been
\* fetched before, with or without an Etag header in the answer.
InitGet ==
    /\ \E S \in SUBSET URLs :
           \/ store = RegisteredOf(S) /\ index = EmptyKV
           \/ \E u \in S \cap SourceURLs :
                  \/ /\ store = FetchedBefore(S, u).store
                     /\ index = FetchedBefore(S, u).index
                  \/ /\ store = FetchedBeforeNoEtag(S, u).store
                     /\ index = FetchedBeforeNoEtag(S, u).index
    /\ pc = [c \in Callers |-> "idle"]
    /\ op = [c \in Callers |-> "none"]
    /\ records = [c \in Callers |-> <<>>]
    /\ snap = [c \in Callers |-> EmptyKV]
    /\ pending = [c \in Callers |-> EmptyKV]
    /\ count = [c \in Callers |-> 0]
    /\ err = [c \in Callers |-> "nil"]
    /\ indexFailed = [c \in Callers |-> FALSE]
    /\ prevSingle = [c \in Callers |-> <<>>]
    /\ found = [c \in Callers |-> NoQuery]
    /\ web = NoService
    /\ FetcherInit

\* One Fetch over those stores.
SpecGet == InitGet /\ [][NextFetchFair]_vars

\* C32 as stated: every request carries exactly one validator header,
\* If-None-Match when the source has an etag and If-Modified-Since otherwise.
C32_ExactlyOneValidator ==
    \A cy \in Cycles, w \in Workers :
        cyc[cy].wk[w].pc = "fetch" =>
            LET opkurl == cyc[cy].wk[w].url[1]
                hdr == RequestOf(cy, w).Header IN
            /\ Cardinality(DOMAIN hdr) = 1
            /\ DOMAIN hdr = IF opkurl.Etag # "" THEN {"If-None-Match"}
                            ELSE {"If-Modified-Since"}

\* C32, amended: every request carries one validator header at most:
\* If-None-Match with the stored etag when there is one, whatever the stored
\* time; else If-Modified-Since with the stored time when that is not the
\* zero time; else none.
C32_AtMostOneValidator ==
    \A cy \in Cycles, w \in Workers :
        cyc[cy].wk[w].pc = "fetch" =>
            LET opkurl == cyc[cy].wk[w].url[1]
                hdr == RequestOf(cy, w).Header IN
            /\ Cardinality(DOMAIN hdr) <= 1
            /\ RequestOf(cy, w).URL = opkurl.URL
            /\ opkurl.Etag # "" =>
                   /\ DOMAIN hdr = {"If-None-Match"}
                   /\ hdr["If-None-Match"] = <<opkurl.Etag>>
            /\ (opkurl.Etag = "" /\ opkurl.LastUpdate # ZeroTime) =>
                   /\ DOMAIN hdr = {"If-Modified-Since"}
                   /\ hdr["If-Modified-Since"]
                          = <<FormatTime(opkurl.LastUpdate)>>
            /\ (opkurl.Etag = "" /\ opkurl.LastUpdate = ZeroTime) =>
                   hdr = NoHeader

\* Two workers of a cycle are inside recordFromURL: one for a source that
\* has a stored time and no etag, the other for a source never fetched.
C32_Witness ==
    \E w1, w2 \in Workers :
        /\ cyc[1].wk[w1].pc = "fetch" /\ cyc[1].wk[w2].pc = "fetch"
        /\ DOMAIN RequestOf(1, w1).Header = {"If-Modified-Since"}
        /\ RequestOf(1, w2).Header = NoHeader

\* The caller's cancel() while sources wait in urlsCh.
CancelQueued ==
    /\ \E cy \in Cycles : cyc[cy].pc = "run" /\ Len(cyc[cy].urlsCh) > 0
    /\ CancelCtx

\* Fetch called on its own and cancelled, if at all, while sources wait in
\* urlsCh.
NextDrain ==
    \/ FetchCall
    \/ CancelQueued
    \/ \E cy \in Cycles : FetchStep(cy, FetchResponses, 0..Cardinality(URLs))

SpecDrain == InitFetch /\ [][NextDrain]_vars

\* C33: a cancelled cycle drains and persists. A URL leaves urlsCh only by
\* being received by a worker, also after the cancellation; and when the
\* workers of a cycle whose enumeration succeeded have returned, urlsCh is
\* empty, every URL the producer sent has been received, the batch is the
\* set of records built, and the cycle that has returned has made its one
\* call of MultiUpdateRecord, which stored the batch unless it failed.
C33_CancelledCycleDrains ==
    /\ [][\A cy \in Cycles :
              cyc'[cy].urlsCh # cyc[cy].urlsCh =>
                  IF Len(cyc'[cy].urlsCh) > Len(cyc[cy].urlsCh)
                  THEN cyc'[cy].taken = cyc[cy].taken
                  ELSE /\ cyc'[cy].urlsCh = Tail(cyc[cy].urlsCh)
                       /\ cyc'[cy].taken
                              = Append(cyc[cy].taken,
                                       Head(cyc[cy].urlsCh).URL)]_vars
    /\ [](\A cy \in Cycles :
              (cyc[cy].pc \in {"write", "exited"} /\ cyc[cy].gerr = "nil") =>
                  /\ cyc[cy].urlsCh = <<>>
                  /\ cyc[cy].taken
                         = SubSeq(EnumeratedURLs(cy), 1, cyc[cy].next - 1)
                  /\ {cyc[cy].records[i] : i \in DOMAIN cyc[cy].records}
                         = cyc[cy].built
                  /\ cyc[cy].pc = "exited" =>
                         /\ cyc[cy].calls = 1
                         /\ cyc[cy].err = "nil" =>
                                \A r \in cyc[cy].built : r.Hash \in DOMAIN store)

\* A cycle cancelled while a source waited in urlsCh, before its producer
\* had sent every source, has returned: the record built from the source
\* received last is stored.
C33_Witness ==
    /\ cyc[1].pc = "exited" /\ ctxDone
    /\ cyc[1].next <= Len(cyc[1].urls)
    /\ cyc[1].calls = 1 /\ cyc[1].err = "nil"
    /\ \E r \in cyc[1].built :
           /\ r.URL = cyc[1].taken[Len(cyc[1].taken)]
           /\ r.Hash \in DOMAIN store /\ store[r.Hash] = r

\* C34: recordExists is exact: for every hash, recordExists on the committed
\* store is true exactly when the store holds a record under the key equal
\* to the hash; so after a MultiUpdateRecord that returned nil every record
\* of the batch is stored under its hash, inserted now or before.
C34_ExistsExact ==
    /\ \A h \in RawHashes :
           recordExists(h, store, EmptyKV)
               <=> (h \in DOMAIN store /\ IsRecord(store[h]))
    /\ (op["c1"] = "MultiUpdateRecord" /\ pc["c1"] = "done"
        /\ err["c1"] = "nil") =>
           \A i \in DOMAIN records["c1"] :
               LET h == records["c1"][i].Hash IN
               h \in DOMAIN store /\ IsRecord(store[h])

\* ------------------------------------------------------ Stop called twice
\* s.quit is unbuffered and has, besides Run, the callers of Stop at both
\* ends: the receive <-s.quit of a caller t that waits for the confirmation
\* and the send s.quit <- struct{}{} of another caller s happen together.
\* Stop of t then returns nil.
StopTakesQuit(t, s) ==
    /\ s # t
    /\ stopPc[t] = "recv"
    /\ stopPc[s] = "send"
    /\ ~quitClosed
    /\ stopPc' = [stopPc EXCEPT ![t] = "returned", ![s] = "recv"]
    /\ UNCHANGED <<store, index, callVars, runPc, runFetch, tickerC, ticks,
                   tickerStopped, quitClosed, ctxDone, wg, cyc>>

\* s.quit <- struct{}{} on the channel Run has closed: the send panics,
\* whether it began before or after the close.
StopPanics(s) ==
    /\ stopPc[s] = "send"
    /\ quitClosed
    /\ stopPc' = [stopPc EXCEPT ![s] = "panicked"]
    /\ UNCHANGED <<store, index, callVars, runPc, runFetch, tickerC, ticks,
                   tickerStopped, quitClosed, ctxDone, wg, cyc>>

\* Run with its startup cycle (no tick) and two callers of Stop, at any
\* time, also after Run has returned.
NextStopTwice ==
    \/ RunStart
    \/ RunTrigger
    \/ \E s \in TwoStoppers : RunQuit(s)
    \/ RunCancel
    \/ RunTickerStop
    \/ RunDrain
    \/ RunReturn
    \/ \E s \in TwoStoppers : StopCall(s)
    \/ \E s \in TwoStoppers : StopReturn(s)
    \/ \E t, s \in TwoStoppers : StopTakesQuit(t, s)
    \/ \E s \in TwoStoppers : StopPanics(s)
    \/ \E cy \in Cycles : CycleStep(cy)

SpecStopTwice == InitRun /\ [][NextStopTwice]_vars

\* C35: with two callers of Stop, no call panics and a call that has
\* returned has returned after the shutdown: Run has returned, s.quit is
\* closed and no fetch cycle is running.
C35_StopTwiceSafe ==
    \A s \in TwoStoppers :
        /\ stopPc[s] # "panicked"
        /\ stopPc[s] = "returned" =>
               (runPc = "done" /\ quitClosed /\ RunningCycles = {})

\* ------------------------------------------------ web.Service Start/Stop
\* What a step of the web service leaves alone.
WebFrame ==
    UNCHANGED <<store, index, pc, op, records, snap, pending, count, err,
                indexFailed, prevSingle, found, fetcherVars>>

\* Start is called: it blocks in <-s.quit.
WebStart ==
    /\ web.start = "idle"
    /\ web' = [web EXCEPT !.start = "recv"]
    /\ WebFrame

\* Stop is called: it blocks in s.quit <- true.
WebStop ==
    /\ web.stop = "idle"
    /\ web' = [web EXCEPT !.stop = "send"]
    /\ WebFrame

\* Start that returns on the quit message without confirming it.
WebQuitNoConfirm ==
    /\ web.start = "recv"
    /\ web.stop = "send"
    /\ web' = [start |-> "return", stop |-> "recv"]
    /\ WebFrame

\* The quit message passes on the unbuffered channel: Stop's send and
\* Start's receive happen together; Start goes on to send the
\* confirmation, Stop to receive it.
WebQuit ==
    /\ web.start = "recv"
    /\ web.stop = "send"
    /\ web' = [start |-> "send", stop |-> "recv"]
    /\ WebFrame

\* The confirmation passes: Start's send and Stop's receive happen together.
WebConfirm ==
    /\ web.start = "send"
    /\ web.stop = "recv"
    /\ web' = [start |-> "return", stop |-> "return"]
    /\ WebFrame

\* Start returns nil.
WebStartReturn ==
    /\ web.start = "return"
    /\ web' = [web EXCEPT !.start = "returned"]
    /\ WebFrame

\* Stop returns nil.
WebStopReturn ==
    /\ web.stop = "return"
    /\ web' = [web EXCEPT !.stop = "returned"]
    /\ WebFrame

\* The steps of the two calls once they are made.
WebStep ==
    \/ WebQuit
    \/ WebConfirm
    \/ WebStartReturn
    \/ WebStopReturn

\* One caller of Start and one of Stop, in any order, while caller c1 uses
\* the store the service was made with.
NextWeb ==
    \/ WebStart
    \/ WebStop
    \/ WebStep
    \/ \E u \in SourceURLs : IndexURL("c1", u)
    \/ \E r \in Records : UpdateRecord("c1", r, TRUE)

SpecWeb == Init /\ [][NextWeb]_vars
\* The runtime runs every goroutine that can take a step.
SpecWebFair == SpecWeb /\ WF_vars(WebStep)

\* Start has received the quit message.
WebQuitReceived == web.start \in {"send", "return", "returned"}

\* C36: Stop returns only after Start has received the quit message, Start
\* returns only after Stop has been called, the two calls never wait on
\* each other without a step to take, and once both are made both return.
C36_StartStopHandshake ==
    /\ [](web.stop \in {"return", "returned"} => WebQuitReceived)
    /\ [](web.start \in {"return", "returned"} => web.stop # "idle")
    /\ []((web.start # "idle" /\ web.stop # "idle"
              /\ web # [start |-> "returned", stop |-> "returned"])
            => ENABLED WebStep)
    /\ (web.start # "idle" /\ web.stop # "idle")
         ~> (web = [start |-> "returned", stop |-> "returned"])

\* Both calls have returned.
C36_Witness ==
    web = [start |-> "returned", stop |-> "returned"]

====
